---- MODULE Spec2Model ----
(***************************************************************************)
(* Server-authoritative time tracking of the Zeiterfassungssystem server:  *)
(* the table Arbeitszeiten, the request handlers start_segment,            *)
(* pause_segment, end_workday and status, and the midnight cutoff          *)
(* (handleStaleTimer).  Every await on the database is one step, so the    *)
(* handlers of concurrent requests interleave at their database round      *)
(* trips.  Time is in milliseconds since local midnight of day 0; every    *)
(* local day has 24 hours (no daylight-saving change in these days).       *)
(* A SELECT ... FOR UPDATE locks the rows it returns until the transaction *)
(* ends; a store that refuses one of two racing transactions (deadlock,    *)
(* lock timeout) is covered by StoreFailure.  req.session                  *)
(* .activeSegmentStartTime is a backup copy that no handler reads and is   *)
(* left out.  The clock is read at whole seconds, the resolution of the    *)
(* DATETIME columns.  SpecWorkday is the same server with one request at a *)
(* time on a working day with 8 hours in reach; SpecVacation is the table  *)
(* Abwesenheiten with getVacationHoursForPeriodHelper, calendar dates      *)
(* counted in days from 1970-01-01.  SpecProfile adds the absence          *)
(* endpoints and the profile answers, SpecAdmin the note edits of the      *)
(* users, the entries of the administrator and the reports, each as one    *)
(* step, and SpecClient the timer page of Frontend/zeiterfassung.js.       *)
(* SpecFair is Spec with weak fairness of every handler's next round trip, *)
(* and SpecUsers the table Praktikanten with the login and the role        *)
(* change, status change and deletion of accounts, one step per await.     *)
(***************************************************************************)
EXTENDS Integers, Sequences, FiniteSets, TLC

\* ------------------------------------------------------------------ bounds
\* number of requests the clients send in one run
MaxRequests == 2

\* ------------------------------------------------------- program constants
DayMs == 24 * 60 * 60 * 1000
MINIMUM_DURATION_MS == 30000
workdayDurationMs == 8 * 60 * 60 * 1000
\* 23:59:00 as milliseconds after local midnight
CutoffTimeOfDay == (23 * 60 + 59) * 60 * 1000
\* SQL NULL in the column endZeit, and "no row" in a handler's local
NULL == 0 - 1
\* the note of the notification entry of handleStaleTimer
AutoCutoffNote == "Auto cut-off Notification: Timer wurde automatisch um 23:59 des vorherigen Tages beendet. Original-Arbeitszeit wurde bis zur Abschaltzeit verlängert."

\* ------------------------------------------------------------- environment
Users == {1, 2}
Sessions == {"s1", "s2", "s3"}
SessionUser(s) == IF s = "s3" THEN 2 ELSE 1
Reqs == {1, 2}
Kinds == {"start", "pause", "end", "status"}
\* req.body.bericht of pause_segment and end_workday
Notes == {"X"}
\* the instants at which the clock is read: day 0 23:58:40, 23:58:55 and
\* 23:59:10, and day 2 08:00:00
Instants == { 86320000, 86335000, 86350000, 201600000 }

VARIABLES now, Arbeitszeiten, nextId, session, pc, kind, sid, loc, tx, locks,
          last, inflightLimit, sent, Abwesenheiten, nextAbsenceId, vacation,
          reply, client, Praktikanten, sessionUser, adminReq

\* the table Abwesenheiten, the vacation hours in the answer given last, and
\* the answer given last by an absence, profile, report, note or
\* administration endpoint
absences == << Abwesenheiten, nextAbsenceId, vacation, reply >>

\* the table Praktikanten, req.session.user of every session, and the
\* requests of the user administration that are being handled
accounts == << Praktikanten, sessionUser, adminReq >>

\* the state of time tracking, with the timer page of the browser
tracking == << now, Arbeitszeiten, nextId, session, pc, kind, sid, loc, tx,
               locks, last, inflightLimit, client >>

vars == << now, Arbeitszeiten, nextId, session, pc, kind, sid, loc, tx, locks,
           last, inflightLimit, sent, Abwesenheiten, nextAbsenceId, vacation,
           reply, client, Praktikanten, sessionUser, adminReq >>

\* --------------------------------------------------------- pure functions
\* new Date(t).toLocaleDateString('en-CA') / getFullYear, getMonth, getDate:
\* the local calendar day of an instant
LocalDate(t) == t \div DayMs

\* faulty variant: the cutoff is put at the midnight that ends the day
getMidnightCutoffTime_Midnight(date) == (LocalDate(date) + 1) * DayMs

\* `${year}-${month}-${day} 23:59:00` of the local day of the argument
getMidnightCutoffTime(date) == LocalDate(date) * DayMs + CutoffTimeOfDay

\* faulty variant: every running timer counts as one of a previous day
isTimerFromPreviousDay_Always(startTime, clock) == TRUE

isTimerFromPreviousDay(startTime, clock) == LocalDate(startTime) # LocalDate(clock)

\* a JS Date bound to a DATETIME column: fractional seconds are rounded
StoreDateTime(t) == ((t + 500) \div 1000) * 1000

NoRow == [id |-> NULL, benutzerId |-> NULL, startZeit |-> NULL,
          endZeit |-> NULL, bericht |-> ""]

Row(i, u, s, e, b) == [id |-> i, benutzerId |-> u, startZeit |-> s,
                       endZeit |-> e, bericht |-> b]

\* WHERE benutzerId = ? AND endZeit IS NULL
OpenRows(rows, u) == {x \in rows : x.benutzerId = u /\ x.endZeit = NULL}

\* faulty variant: the closed segments of every day are selected
TodayRows_AnyDay(rows, u, today) ==
    {x \in rows : x.benutzerId = u /\ x.endZeit # NULL}

\* WHERE benutzerId = ? AND DATE(startZeit) = ? AND endZeit IS NOT NULL
TodayRows(rows, u, today) ==
    {x \in rows : x.benutzerId = u /\ LocalDate(x.startZeit) = today
                  /\ x.endZeit # NULL}

RECURSIVE SumPositiveDurations(_)
SumPositiveDurations(rows) ==
    IF rows = {} THEN 0
    ELSE LET x == CHOOSE y \in rows : TRUE
             durationMs == x.endZeit - x.startZeit
         IN  (IF durationMs > 0 THEN durationMs ELSE 0)
             + SumPositiveDurations(rows \ {x})

getTodayWorkTimeHelper(rows, u, clock) ==
    SumPositiveDurations(TodayRows(rows, u, LocalDate(clock)))

\* --------------------------------------------------- connections and locks
Running(r) == pc[r] # "idle"
InTransaction(r) == kind[r] # "status"
EmptyTx == [touched |-> {}, rows |-> {}]

\* what the connection of request r reads: the committed table overlaid with
\* the uncommitted writes of its own transaction
View(r) == {x \in Arbeitszeiten : x.id \notin tx[r].touched} \cup tx[r].rows

\* a locking read (FOR UPDATE) or a write waits while another transaction
\* holds the lock of a row it has to visit
LockedByOther(r, i) == \E q \in Reqs \ {r} : i \in locks[q]

\* faulty variant: the SELECT is a plain read that waits for no lock
ForUpdateBlocked_NoWait(r, u) == FALSE

\* faulty variant: the lock of an open row of any user makes the read wait
ForUpdateBlocked_AnyUser(r, u) ==
    \E q \in Reqs \ {r} : \E i \in locks[q] :
        \/ \E x \in Arbeitszeiten : x.id = i /\ x.endZeit = NULL
        \/ \E x \in tx[q].rows : x.id = i /\ x.endZeit = NULL

\* SELECT ... WHERE benutzerId = ? AND endZeit IS NULL FOR UPDATE waits while
\* another transaction holds the lock of an open row of user u
ForUpdateBlocked(r, u) ==
    \E q \in Reqs \ {r} : \E i \in locks[q] :
        \/ \E x \in Arbeitszeiten : x.id = i /\ x.benutzerId = u /\ x.endZeit = NULL
        \/ \E x \in tx[q].rows : x.id = i /\ x.benutzerId = u /\ x.endZeit = NULL

\* faulty variant: the statement runs on the pool, outside the transaction
WriteRows_Autocommit(r, ids, newrows) ==
    /\ Arbeitszeiten' = {x \in Arbeitszeiten : x.id \notin ids} \cup newrows
    /\ UNCHANGED << tx, locks >>

\* rows ids are replaced by newrows (none: the rows are deleted), inside the
\* transaction of r or, on an autocommit connection, in the table itself
WriteRows(r, ids, newrows) ==
    IF InTransaction(r)
    THEN /\ tx' = [tx EXCEPT ![r] =
                     [touched |-> @.touched \cup ids \cup {x.id : x \in newrows},
                      rows |-> {x \in @.rows : x.id \notin ids} \cup newrows]]
         /\ locks' = [locks EXCEPT ![r] = @ \cup ids \cup {x.id : x \in newrows}]
         /\ UNCHANGED Arbeitszeiten
    ELSE /\ Arbeitszeiten' = {x \in Arbeitszeiten : x.id \notin ids} \cup newrows
         /\ UNCHANGED << tx, locks >>

Response(code, msg) ==
    [code |-> code, msg |-> msg, totalDurationMs |-> 0,
     activeSegmentStartTime |-> NULL, autoCutoffDetected |-> FALSE]

NoResponse == Response(0, "")

InitLoc == [t |-> 0, bericht |-> "", n |-> 0, rec |-> NoRow, stale |-> FALSE,
            short |-> FALSE, auto |-> FALSE, total |-> 0]

\* activeRows[0] of a SELECT without ORDER BY: any of the rows may come first
FirstRow(rows) == IF rows = {} THEN {NoRow} ELSE rows

\* faulty variant: a segment of exactly the minimum duration is discarded
AfterDurationCheck_Inclusive(r, rec) ==
    IF loc[r].t - rec.startZeit <= MINIMUM_DURATION_MS THEN "delete" ELSE "update"

\* durationMs < MINIMUM_DURATION_MS decides between DELETE and UPDATE
AfterDurationCheck(r, rec) ==
    IF loc[r].t - rec.startZeit < MINIMUM_DURATION_MS THEN "delete" ELSE "update"

NoLast == [user |-> NULL, kind |-> "", resp |-> NoResponse, timerId |-> NULL]

\* the client's total of the day from a status answer read at time clock:
\* totalWorkedMs = serverTotalDurationMs + (Date.now() - segmentStartMs)
totalWorkedMs(answer, clock) ==
    answer.totalDurationMs +
    (IF answer.activeSegmentStartTime # NULL
     THEN clock - answer.activeSegmentStartTime ELSE 0)

\* the timer page of the browser (src/Frontend/zeiterfassung.js): interval is
\* visualTimerInterval being set, fetching the slot of the status request the
\* page waits for, display the text of the element current-time
NoClient == [interval |-> FALSE, istVisuellAktiv |-> FALSE,
             currentSegmentStartTime |-> NULL, serverTotalDurationMs |-> 0,
             lastServerSync |-> NULL, fetching |-> 0, display |-> 0]

\* formatRemainingTime: HH:MM:SS of the whole seconds of a duration, negative
\* durations shown as zero; the text is given as its number of seconds
formatRemainingTime(milliseconds) ==
    (IF milliseconds < 0 THEN 0 ELSE milliseconds) \div 1000

\* resetTimerStateAndUI
resetTimerStateAndUI ==
    [client EXCEPT !.interval = FALSE, !.istVisuellAktiv = FALSE,
                   !.currentSegmentStartTime = NULL,
                   !.serverTotalDurationMs = 0, !.fetching = 0,
                   !.display = formatRemainingTime(workdayDurationMs)]

\* faulty variant: the total of the answer is not stored
Received_KeepsTotal(result) ==
    IF result.code # 200 THEN [client EXCEPT !.fetching = 0]
    ELSE IF result.autoCutoffDetected THEN resetTimerStateAndUI
    ELSE [client EXCEPT
            !.istVisuellAktiv = result.activeSegmentStartTime # NULL,
            !.currentSegmentStartTime = result.activeSegmentStartTime,
            !.display = formatRemainingTime(
                workdayDurationMs - totalWorkedMs(result, now)),
            !.lastServerSync = now, !.fetching = 0]

\* aktualisiereTimerDisplay after its fetch of the status: the answer of the
\* server is taken over, or the page is reset after an automatic cutoff
Received(result) ==
    IF result.code # 200 THEN [client EXCEPT !.fetching = 0]
    ELSE IF result.autoCutoffDetected THEN resetTimerStateAndUI
    ELSE [client EXCEPT
            !.serverTotalDurationMs = result.totalDurationMs,
            !.istVisuellAktiv = result.activeSegmentStartTime # NULL,
            !.currentSegmentStartTime = result.activeSegmentStartTime,
            !.display = formatRemainingTime(
                workdayDurationMs - totalWorkedMs(result, now)),
            !.lastServerSync = now, !.fetching = 0]

\* the request is answered and its slot is free again; last is the answer
\* given last, with the id of the stale timer the handler found
Finish(r, answer) ==
    /\ pc' = [pc EXCEPT ![r] = "idle"]
    /\ kind' = [kind EXCEPT ![r] = "start"]
    /\ sid' = [sid EXCEPT ![r] = "s1"]
    /\ loc' = [loc EXCEPT ![r] = InitLoc]
    /\ last' = [user |-> SessionUser(sid[r]), kind |-> kind[r], resp |-> answer,
                timerId |-> IF loc[r].stale THEN loc[r].rec.id ELSE NULL]
    /\ client' = IF client.fetching = r THEN Received(answer) ELSE client

\* the handler goes on to its next database round trip
Goto(r, label, locals) ==
    /\ pc' = [pc EXCEPT ![r] = label]
    /\ loc' = [loc EXCEPT ![r] = locals]
    /\ UNCHANGED << kind, sid, last, client >>

\* connection.commit(); connection.release()
Commit(r) ==
    /\ Arbeitszeiten' = View(r)
    /\ tx' = [tx EXCEPT ![r] = EmptyTx]
    /\ locks' = [locks EXCEPT ![r] = {}]

\* faulty variant: the transaction is rolled back but its row locks are kept
Rollback_KeepsLocks(r) ==
    /\ tx' = [tx EXCEPT ![r] = EmptyTx]
    /\ UNCHANGED << Arbeitszeiten, locks >>

\* connection.rollback(); connection.release()
Rollback(r) ==
    /\ tx' = [tx EXCEPT ![r] = EmptyTx]
    /\ locks' = [locks EXCEPT ![r] = {}]
    /\ UNCHANGED Arbeitszeiten

\* SELECT ... FOR UPDATE takes the locks of the rows it returns
LockRows(r, rows) ==
    /\ locks' = [locks EXCEPT ![r] = @ \cup {x.id : x \in rows}]
    /\ UNCHANGED << Arbeitszeiten, tx >>

\* ------------------------------------------------------------------- Init
NoVacation == [benutzerId |-> NULL, periodStartDate |-> NULL,
               periodEndDate |-> NULL, vacationHours |-> NULL]

\* the answer of an endpoint outside the timer: n is the number of the
\* request among the requests sent
NoReply == [n |-> 0, endpoint |-> "", user |-> NULL, code |-> 0]

\* the ids of the rows of the table Praktikanten
Accounts == {1, 2, 3}

\* process.env.MAIN_ADMIN_EMAIL || process.env.ADMIN_EMAIL || "admin@example.com"
mainAdminEmail == "admin@example.com"

\* a row of the table Praktikanten: rolle ENUM("Praktikant", "Betreuer"),
\* status ENUM('aktiv', 'inaktiv')
Account(id, email, rolle, status) ==
    [id |-> id, email |-> email, rolle |-> rolle, status |-> status]

NoAccount == Account(NULL, "", "", "")

\* req.session.user as the login has set it: the id and the role the row had
\* at the time of the login
SessionOf(row) == [id |-> row.id, rolle |-> row.rolle]

\* no request of the user administration is being handled in the slot
NoAdminReq == [op |-> "", pc |-> "idle", s |-> "", id |-> NULL, arg |-> "",
               userToEdit |-> NoAccount]

\* the users of the timer are two active Praktikanten, each logged in, and
\* the administrator is the account setup_prod_db.js creates
InitAccounts ==
    /\ Praktikanten = { Account(1, "a@example.com", "Praktikant", "aktiv"),
                        Account(2, "b@example.com", "Praktikant", "aktiv"),
                        Account(3, mainAdminEmail, "Betreuer", "aktiv") }
    /\ sessionUser = [s \in Sessions |->
                        [id |-> SessionUser(s), rolle |-> "Praktikant"]]
    /\ adminReq = [r \in Reqs |-> NoAdminReq]

\* no absence is recorded and no answer holds vacation hours
InitAbsences ==
    /\ Abwesenheiten = {}
    /\ nextAbsenceId = 1
    /\ vacation = NoVacation
    /\ reply = NoReply
    /\ InitAccounts

\* the table is empty, or user 1 has a timer running that was started just now
InitCommon ==
    /\ now = 86320000
    /\ \/ Arbeitszeiten = {} /\ nextId = 1
       \/ Arbeitszeiten = {Row(1, 1, 86320000, NULL, "")} /\ nextId = 2
    /\ session = [s \in Sessions |-> {}]
    /\ pc = [r \in Reqs |-> "idle"]
    /\ kind = [r \in Reqs |-> "start"]
    /\ sid = [r \in Reqs |-> "s1"]
    /\ loc = [r \in Reqs |-> InitLoc]
    /\ tx = [r \in Reqs |-> EmptyTx]
    /\ locks = [r \in Reqs |-> {}]
    /\ sent = 0
    /\ last = NoLast
    /\ client = NoClient
    /\ InitAbsences

Init == InitCommon /\ inflightLimit = 2

\* one request at a time
InitSeq == InitCommon /\ inflightLimit = 1

\* ---------------------------------------------------------------- actions
\* the clock moves on to a later instant
Tick ==
    /\ \E t \in Instants : t > now /\ now' = t
    /\ UNCHANGED << Arbeitszeiten, nextId, session, pc, kind, sid, loc, tx,
                    locks, last, inflightLimit, accounts, absences, sent, client >>

\* a request of session s arrives: pool.getConnection(), beginTransaction()
\* and the handler's new Date()
Launch(r, s, k, b) ==
    /\ ~Running(r)
    /\ \A q \in Reqs : q < r => Running(q)
    /\ Cardinality({q \in Reqs : Running(q)}) < inflightLimit
    /\ sent < MaxRequests
    /\ sent' = sent + 1
    /\ b = IF k \in {"pause", "end"} THEN "X" ELSE ""
    /\ k # "status" => s \in {"s1", "s3"}
    /\ pc' = [pc EXCEPT ![r] = "select"]
    /\ kind' = [kind EXCEPT ![r] = k]
    /\ sid' = [sid EXCEPT ![r] = s]
    /\ loc' = [loc EXCEPT ![r] = [InitLoc EXCEPT !.t = now, !.bericht = b]]
    /\ UNCHANGED << now, Arbeitszeiten, nextId, session, tx, locks, last,
                    inflightLimit, accounts, absences, client >>

\* faulty variant: the result of the SELECT is not looked at
StartSelect_NoCheck(r) ==
    /\ pc[r] = "select" /\ kind[r] = "start"
    /\ ~ForUpdateBlocked(r, SessionUser(sid[r]))
    /\ LockRows(r, OpenRows(View(r), SessionUser(sid[r])))
    /\ Goto(r, "insert", loc[r])
    /\ UNCHANGED << now, nextId, session, inflightLimit, accounts, absences, sent >>

\* faulty variant: a start is also refused when the day's quota is reached
StartSelect_QuotaCheck(r) ==
    LET u == SessionUser(sid[r])
        existingActive == OpenRows(View(r), u)
    IN  /\ pc[r] = "select" /\ kind[r] = "start"
        /\ ~ForUpdateBlocked(r, u)
        /\ IF \/ existingActive # {}
              \/ getTodayWorkTimeHelper(View(r), u, loc[r].t) >= workdayDurationMs
           THEN /\ Rollback(r)
                /\ Finish(r, Response(400, "AlreadyActive"))
           ELSE /\ LockRows(r, existingActive)
                /\ Goto(r, "insert", loc[r])
        /\ UNCHANGED << now, nextId, session, inflightLimit, accounts, absences, sent >>

\* start_segment: SELECT id ... WHERE benutzerId = ? AND endZeit IS NULL FOR UPDATE
StartSelect(r) ==
    LET u == SessionUser(sid[r])
        existingActive == OpenRows(View(r), u)
    IN  /\ pc[r] = "select" /\ kind[r] = "start"
        /\ ~ForUpdateBlocked(r, u)
        /\ IF existingActive # {}
           THEN /\ Rollback(r)
                /\ Finish(r, Response(400, "AlreadyActive"))
           ELSE /\ LockRows(r, existingActive)
                /\ Goto(r, "insert", loc[r])
        /\ UNCHANGED << now, nextId, session, inflightLimit, accounts, absences, sent >>

\* faulty variant: the segment is inserted with an end
StartInsert_Closed(r) ==
    /\ pc[r] = "insert" /\ kind[r] = "start"
    /\ WriteRows(r, {}, {Row(nextId, SessionUser(sid[r]),
                             StoreDateTime(loc[r].t), StoreDateTime(loc[r].t), "")})
    /\ nextId' = nextId + 1
    /\ Goto(r, "commit", loc[r])
    /\ UNCHANGED << now, session, inflightLimit, accounts, absences, sent >>

\* start_segment: INSERT ... VALUES (?, ?, NULL, '')
StartInsert(r) ==
    /\ pc[r] = "insert" /\ kind[r] = "start"
    /\ WriteRows(r, {}, {Row(nextId, SessionUser(sid[r]),
                             StoreDateTime(loc[r].t), NULL, "")})
    /\ nextId' = nextId + 1
    /\ Goto(r, "commit", loc[r])
    /\ UNCHANGED << now, session, inflightLimit, accounts, absences, sent >>

\* start_segment: connection.commit() and the success answer
StartCommit(r) ==
    /\ pc[r] = "commit" /\ kind[r] = "start"
    /\ Commit(r)
    /\ Finish(r, Response(200, "started"))
    /\ UNCHANGED << now, nextId, session, inflightLimit, accounts, absences, sent >>

\* faulty variant: the UPDATE of handleStaleTimer also writes the note
HandleStaleUpdate_Overwrite(r) ==
    LET timerId == loc[r].rec.id
        cutoffTime == getMidnightCutoffTime(loc[r].rec.startZeit)
        visible == IF InTransaction(r) THEN View(r) ELSE Arbeitszeiten
        hit == {x \in visible : x.id = timerId}
    IN  /\ pc[r] = "stale_update"
        /\ ~LockedByOther(r, timerId)
        /\ WriteRows(r, {x.id : x \in hit},
                     {[x EXCEPT !.endZeit = cutoffTime,
                                !.bericht = AutoCutoffNote] : x \in hit})
        /\ Goto(r, "stale_insert", loc[r])
        /\ UNCHANGED << now, nextId, session, inflightLimit, accounts, absences, sent >>

\* faulty variant: the UPDATE of handleStaleTimer matches no row
HandleStaleUpdate_NoRow(r) ==
    /\ pc[r] = "stale_update"
    /\ ~LockedByOther(r, loc[r].rec.id)
    /\ WriteRows(r, {}, {})
    /\ Goto(r, "stale_insert", loc[r])
    /\ UNCHANGED << now, nextId, session, inflightLimit, accounts, absences, sent >>

\* handleStaleTimer, step 1: UPDATE Arbeitszeiten SET endZeit = ? WHERE id = ?
HandleStaleUpdate(r) ==
    LET timerId == loc[r].rec.id
        cutoffTime == getMidnightCutoffTime(loc[r].rec.startZeit)
        visible == IF InTransaction(r) THEN View(r) ELSE Arbeitszeiten
        hit == {x \in visible : x.id = timerId}
    IN  /\ pc[r] = "stale_update"
        /\ ~LockedByOther(r, timerId)
        /\ WriteRows(r, {x.id : x \in hit},
                     {[x EXCEPT !.endZeit = cutoffTime] : x \in hit})
        /\ Goto(r, "stale_insert", loc[r])
        /\ UNCHANGED << now, nextId, session, inflightLimit, accounts, absences, sent >>

\* handleStaleTimer, step 2: INSERT of the notification entry; the status
\* handler then marks the timer as handled in its session
HandleStaleInsert(r) ==
    LET cutoffTime == getMidnightCutoffTime(loc[r].rec.startZeit)
    IN  /\ pc[r] = "stale_insert"
        /\ WriteRows(r, {}, {Row(nextId, SessionUser(sid[r]), cutoffTime,
                                 cutoffTime, AutoCutoffNote)})
        /\ nextId' = nextId + 1
        /\ IF kind[r] = "status"
           THEN /\ Goto(r, "today", [loc[r] EXCEPT !.auto = TRUE])
                /\ session' = [session EXCEPT ![sid[r]] = @ \cup {loc[r].rec.id}]
           ELSE /\ Goto(r, "reselect", loc[r])
                /\ UNCHANGED session
        /\ UNCHANGED << now, inflightLimit, accounts, absences, sent >>

\* faulty variant: pause_segment does not look for a stale timer
PauseSelect_NoStaleCheck(r) ==
    LET u == SessionUser(sid[r])
        activeRows == OpenRows(View(r), u)
    IN  /\ pc[r] = "select" /\ kind[r] = "pause"
        /\ ~ForUpdateBlocked(r, u)
        /\ \E activeRecord \in FirstRow(activeRows) :
             IF activeRows = {}
             THEN /\ Rollback(r)
                  /\ Finish(r, Response(400, "NoActiveSegment"))
             ELSE /\ LockRows(r, activeRows)
                  /\ Goto(r, AfterDurationCheck(r, activeRecord),
                          [loc[r] EXCEPT !.n = Cardinality(activeRows),
                                         !.rec = activeRecord])
        /\ UNCHANGED << now, nextId, session, inflightLimit, accounts, absences, sent >>

\* pause_segment: SELECT id, startZeit, bericht ... FOR UPDATE, the stale
\* check, the "no active segment" answer and the duration check
PauseSelect(r) ==
    LET u == SessionUser(sid[r])
        activeRows == OpenRows(View(r), u)
    IN  /\ pc[r] = "select" /\ kind[r] = "pause"
        /\ ~ForUpdateBlocked(r, u)
        /\ \E activeRecord \in FirstRow(activeRows) :
             IF activeRows # {} /\ isTimerFromPreviousDay(activeRecord.startZeit, now)
             THEN /\ LockRows(r, activeRows)
                  /\ Goto(r, "stale_update",
                          [loc[r] EXCEPT !.n = Cardinality(activeRows),
                                         !.rec = activeRecord, !.stale = TRUE])
             ELSE IF activeRows = {}
             THEN /\ Rollback(r)
                  /\ Finish(r, Response(400, "NoActiveSegment"))
             ELSE /\ LockRows(r, activeRows)
                  /\ Goto(r, AfterDurationCheck(r, activeRecord),
                          [loc[r] EXCEPT !.n = Cardinality(activeRows),
                                         !.rec = activeRecord])
        /\ UNCHANGED << now, nextId, session, inflightLimit, accounts, absences, sent >>

\* pause_segment: the second SELECT ... FOR UPDATE after handleStaleTimer
PauseReselect(r) ==
    LET u == SessionUser(sid[r])
        newActiveRows == OpenRows(View(r), u)
    IN  /\ pc[r] = "reselect" /\ kind[r] = "pause"
        /\ ~ForUpdateBlocked(r, u)
        /\ IF newActiveRows = {}
           THEN /\ Rollback(r)
                /\ Finish(r, Response(400, "StaleCutoff"))
           ELSE /\ LockRows(r, newActiveRows)
                /\ Goto(r, AfterDurationCheck(r, loc[r].rec), loc[r])
        /\ UNCHANGED << now, nextId, session, inflightLimit, accounts, absences, sent >>

\* faulty variant: the short segment is closed like any other
PauseDelete_Close(r) ==
    LET hit == {x \in View(r) : x.id = loc[r].rec.id}
    IN  /\ pc[r] = "delete" /\ kind[r] = "pause"
        /\ WriteRows(r, {x.id : x \in hit},
                     {[x EXCEPT !.endZeit = StoreDateTime(loc[r].t),
                                !.bericht = loc[r].bericht] : x \in hit})
        /\ Goto(r, "commit", [loc[r] EXCEPT !.short = TRUE])
        /\ UNCHANGED << now, nextId, session, inflightLimit, accounts, absences, sent >>

\* pause_segment: DELETE FROM Arbeitszeiten WHERE id = ? (segment too short)
PauseDelete(r) ==
    /\ pc[r] = "delete" /\ kind[r] = "pause"
    /\ WriteRows(r, {loc[r].rec.id}, {})
    /\ Goto(r, "commit", [loc[r] EXCEPT !.short = TRUE])
    /\ UNCHANGED << now, nextId, session, inflightLimit, accounts, absences, sent >>

\* pause_segment: UPDATE Arbeitszeiten SET endZeit = ?, bericht = ? WHERE id = ?
PauseUpdate(r) ==
    LET hit == {x \in View(r) : x.id = loc[r].rec.id}
    IN  /\ pc[r] = "update" /\ kind[r] = "pause"
        /\ WriteRows(r, {x.id : x \in hit},
                     {[x EXCEPT !.endZeit = StoreDateTime(loc[r].t),
                                !.bericht = loc[r].bericht] : x \in hit})
        /\ Goto(r, "commit", loc[r])
        /\ UNCHANGED << now, nextId, session, inflightLimit, accounts, absences, sent >>

\* pause_segment: connection.commit() and the answer
PauseCommit(r) ==
    /\ pc[r] = "commit" /\ kind[r] = "pause"
    /\ Commit(r)
    /\ Finish(r, Response(200, IF loc[r].short THEN "TooShort" ELSE "paused"))
    /\ UNCHANGED << now, nextId, session, inflightLimit, accounts, absences, sent >>

\* faulty variant: a total of exactly the workday duration is not enough
WorkdayAnswer_Strict(total, short) ==
    IF workdayDurationMs - total < 0
    THEN Response(200, IF short THEN "TooShortEnded" ELSE "ended")
    ELSE Response(400, IF short THEN "TooShortQuotaNotMet" ELSE "QuotaNotMet")

\* the answer of end_workday from today's total
WorkdayAnswer(total, short) ==
    IF workdayDurationMs - total <= 0
    THEN Response(200, IF short THEN "TooShortEnded" ELSE "ended")
    ELSE Response(400, IF short THEN "TooShortQuotaNotMet" ELSE "QuotaNotMet")

\* end_workday: SELECT ... FOR UPDATE, the stale check and the duration check
EndSelect(r) ==
    LET u == SessionUser(sid[r])
        activeRows == OpenRows(View(r), u)
    IN  /\ pc[r] = "select" /\ kind[r] = "end"
        /\ ~ForUpdateBlocked(r, u)
        /\ LockRows(r, activeRows)
        /\ \E activeRecord \in FirstRow(activeRows) :
             LET isStale == activeRows # {} /\
                            isTimerFromPreviousDay(activeRecord.startZeit, now)
             IN  Goto(r, IF activeRows = {} THEN "worktime_none"
                         ELSE IF isStale THEN "stale_update"
                         ELSE AfterDurationCheck(r, activeRecord),
                      [loc[r] EXCEPT !.n = Cardinality(activeRows),
                                     !.rec = activeRecord, !.stale = isStale])
        /\ UNCHANGED << now, nextId, session, inflightLimit, accounts, absences, sent >>

\* end_workday: the second SELECT ... FOR UPDATE after handleStaleTimer
EndReselect(r) ==
    LET u == SessionUser(sid[r])
        newActiveRows == OpenRows(View(r), u)
    IN  /\ pc[r] = "reselect" /\ kind[r] = "end"
        /\ ~ForUpdateBlocked(r, u)
        /\ IF newActiveRows = {}
           THEN /\ Commit(r)
                /\ Finish(r, Response(200, "StaleCutoff"))
           ELSE /\ LockRows(r, newActiveRows)
                /\ Goto(r, AfterDurationCheck(r, loc[r].rec), loc[r])
        /\ UNCHANGED << now, nextId, session, inflightLimit, accounts, absences, sent >>

\* end_workday: DELETE FROM Arbeitszeiten WHERE id = ? (segment too short)
EndDelete(r) ==
    /\ pc[r] = "delete" /\ kind[r] = "end"
    /\ WriteRows(r, {loc[r].rec.id}, {})
    /\ Goto(r, "worktime", [loc[r] EXCEPT !.short = TRUE])
    /\ UNCHANGED << now, nextId, session, inflightLimit, accounts, absences, sent >>

\* end_workday: UPDATE Arbeitszeiten SET endZeit = ?, bericht = ? WHERE id = ?
EndUpdate(r) ==
    LET hit == {x \in View(r) : x.id = loc[r].rec.id}
    IN  /\ pc[r] = "update" /\ kind[r] = "end"
        /\ WriteRows(r, {x.id : x \in hit},
                     {[x EXCEPT !.endZeit = StoreDateTime(loc[r].t),
                                !.bericht = loc[r].bericht] : x \in hit})
        /\ Goto(r, "worktime", loc[r])
        /\ UNCHANGED << now, nextId, session, inflightLimit, accounts, absences, sent >>

\* end_workday: getTodayWorkTimeHelper on the transaction's connection
EndWorkTime(r) ==
    /\ pc[r] = "worktime" /\ kind[r] = "end"
    /\ Goto(r, "commit", [loc[r] EXCEPT !.total =
               getTodayWorkTimeHelper(View(r), SessionUser(sid[r]), now)])
    /\ UNCHANGED << now, Arbeitszeiten, nextId, session, tx, locks, inflightLimit, accounts, absences, sent >>

\* faulty variant: the transaction is rolled back when the answer is an error
EndCommit_RollbackOnError(r) ==
    /\ pc[r] = "commit" /\ kind[r] = "end"
    /\ IF WorkdayAnswer(loc[r].total, loc[r].short).code = 200
       THEN Commit(r) ELSE Rollback(r)
    /\ Finish(r, WorkdayAnswer(loc[r].total, loc[r].short))
    /\ UNCHANGED << now, nextId, session, inflightLimit, accounts, absences, sent >>

\* end_workday: connection.commit() and the answer from today's total
EndCommit(r) ==
    /\ pc[r] = "commit" /\ kind[r] = "end"
    /\ Commit(r)
    /\ Finish(r, WorkdayAnswer(loc[r].total, loc[r].short))
    /\ UNCHANGED << now, nextId, session, inflightLimit, accounts, absences, sent >>

\* faulty variant: a total of 0 is answered like any other total
EndNoActive_NoZeroCase(r) ==
    LET todayWorkTimeMs == getTodayWorkTimeHelper(View(r), SessionUser(sid[r]), now)
    IN  /\ pc[r] = "worktime_none" /\ kind[r] = "end"
        /\ Rollback(r)
        /\ Finish(r, WorkdayAnswer(todayWorkTimeMs, FALSE))
        /\ UNCHANGED << now, nextId, session, inflightLimit, accounts, absences, sent >>

\* end_workday without an active timer: getTodayWorkTimeHelper, rollback and
\* the answer from the total of the segments already closed
EndNoActive(r) ==
    LET todayWorkTimeMs == getTodayWorkTimeHelper(View(r), SessionUser(sid[r]), now)
    IN  /\ pc[r] = "worktime_none" /\ kind[r] = "end"
        /\ Rollback(r)
        /\ Finish(r, IF todayWorkTimeMs = 0 THEN Response(400, "NothingLogged")
                     ELSE WorkdayAnswer(todayWorkTimeMs, FALSE))
        /\ UNCHANGED << now, nextId, session, inflightLimit, accounts, absences, sent >>

\* status: SELECT id, startZeit, bericht ... WHERE endZeit IS NULL (no lock),
\* the stale check and the check of the session's autocut_handled_<id> key
StatusSelect(r) ==
    LET u == SessionUser(sid[r])
        activeRows == OpenRows(Arbeitszeiten, u)
    IN  /\ pc[r] = "select" /\ kind[r] = "status"
        /\ \E activeRecord \in FirstRow(activeRows) :
             LET isStale == activeRows # {} /\
                            isTimerFromPreviousDay(activeRecord.startZeit, now)
             IN  Goto(r, IF isStale /\ activeRecord.id \notin session[sid[r]]
                         THEN "stale_update" ELSE "today",
                      [loc[r] EXCEPT !.n = Cardinality(activeRows),
                                     !.rec = activeRecord, !.stale = isStale])
        /\ UNCHANGED << now, Arbeitszeiten, nextId, session, tx, locks,
                        inflightLimit, accounts, absences, sent >>

StatusAnswer(total, active, auto) ==
    [code |-> 200, msg |-> "status", totalDurationMs |-> total,
     activeSegmentStartTime |-> active, autoCutoffDetected |-> auto]

\* status: the completed segments of today (the date read when the request
\* arrived); after an auto-cutoff the answer follows at once
StatusToday(r) ==
    LET u == SessionUser(sid[r])
        todayRows == TodayRows(Arbeitszeiten, u, LocalDate(loc[r].t))
        totalDurationMs == SumPositiveDurations(todayRows)
    IN  /\ pc[r] = "today" /\ kind[r] = "status"
        /\ IF loc[r].auto
           THEN Finish(r, StatusAnswer(totalDurationMs, NULL, TRUE))
           ELSE Goto(r, "active", [loc[r] EXCEPT !.total = totalDurationMs])
        /\ UNCHANGED << now, Arbeitszeiten, nextId, session, tx, locks,
                        inflightLimit, accounts, absences, sent >>

\* status: SELECT startZeit ... WHERE endZeit IS NULL and the answer
StatusActive(r) ==
    LET newActiveRows == OpenRows(Arbeitszeiten, SessionUser(sid[r]))
    IN  /\ pc[r] = "active" /\ kind[r] = "status"
        /\ \E first \in FirstRow(newActiveRows) :
             Finish(r, StatusAnswer(loc[r].total, first.startZeit, FALSE))
        /\ UNCHANGED << now, Arbeitszeiten, nextId, session, tx, locks,
                        inflightLimit, accounts, absences, sent >>

\* a database round trip throws: the catch block of start_segment,
\* pause_segment and end_workday rolls the transaction back; status has no
\* transaction, what it has written stays
StoreFailure(r) ==
    /\ Running(r)
    /\ IF InTransaction(r)
       THEN Rollback(r)
       ELSE UNCHANGED << Arbeitszeiten, tx, locks >>
    /\ Finish(r, Response(500, "error"))
    /\ UNCHANGED << now, nextId, session, inflightLimit, accounts, absences, sent >>

\* the instants of a working day: day 0 13:00:00, 13:00:20, 13:00:30,
\* 13:00:45, 16:59:59 and 17:00:00, and day 1 08:00:00
WorkdayInstants == { 46800000, 46820000, 46830000, 46845000, 61199000,
                     61200000, 115200000 }

\* at 13:00:00 user 1 has logged nothing today, or 08:00-16:00, or
\* 08:00-12:00 with a timer running since 13:00:00
InitWorkday ==
    /\ now = 46800000
    /\ \/ Arbeitszeiten = {} /\ nextId = 1
       \/ Arbeitszeiten = {Row(1, 1, 28800000, 57600000, "X")} /\ nextId = 2
       \/ Arbeitszeiten = {Row(1, 1, 28800000, 43200000, "X"),
                           Row(2, 1, 46800000, NULL, "")} /\ nextId = 3
    /\ session = [s \in Sessions |-> {}]
    /\ pc = [r \in Reqs |-> "idle"]
    /\ kind = [r \in Reqs |-> "start"]
    /\ sid = [r \in Reqs |-> "s1"]
    /\ loc = [r \in Reqs |-> InitLoc]
    /\ tx = [r \in Reqs |-> EmptyTx]
    /\ locks = [r \in Reqs |-> {}]
    /\ sent = 0
    /\ last = NoLast
    /\ inflightLimit = 1
    /\ client = NoClient
    /\ InitAbsences

\* the clock moves on to a later instant of the working day
TickWorkday ==
    /\ \E t \in WorkdayInstants : t > now /\ now' = t
    /\ UNCHANGED << Arbeitszeiten, nextId, session, pc, kind, sid, loc, tx,
                    locks, last, inflightLimit, accounts, absences, sent, client >>

Next ==
    \/ Tick
    \/ \E r \in Reqs, s \in Sessions, k \in Kinds, b \in Notes \cup {""} :
          Launch(r, s, k, b)
    \/ \E r \in Reqs : StartSelect(r)
    \/ \E r \in Reqs : StartInsert(r)
    \/ \E r \in Reqs : StartCommit(r)
    \/ \E r \in Reqs : HandleStaleUpdate(r)
    \/ \E r \in Reqs : HandleStaleInsert(r)
    \/ \E r \in Reqs : PauseSelect(r)
    \/ \E r \in Reqs : PauseReselect(r)
    \/ \E r \in Reqs : PauseDelete(r)
    \/ \E r \in Reqs : PauseUpdate(r)
    \/ \E r \in Reqs : PauseCommit(r)
    \/ \E r \in Reqs : EndSelect(r)
    \/ \E r \in Reqs : EndReselect(r)
    \/ \E r \in Reqs : EndDelete(r)
    \/ \E r \in Reqs : EndUpdate(r)
    \/ \E r \in Reqs : EndWorkTime(r)
    \/ \E r \in Reqs : EndCommit(r)
    \/ \E r \in Reqs : EndNoActive(r)
    \/ \E r \in Reqs : StatusSelect(r)
    \/ \E r \in Reqs : StatusToday(r)
    \/ \E r \in Reqs : StatusActive(r)
    \/ \E r \in Reqs : StoreFailure(r)

Spec == Init /\ [][Next]_vars

SpecSeq == InitSeq /\ [][Next]_vars

\* one round trip of the handler of request r: the database answers every
\* statement that waits for no lock and the event loop then runs the
\* continuation of the handler
HandlerStep(r) ==
    \/ StartSelect(r) \/ StartInsert(r) \/ StartCommit(r)
    \/ HandleStaleUpdate(r) \/ HandleStaleInsert(r)
    \/ PauseSelect(r) \/ PauseReselect(r) \/ PauseDelete(r)
    \/ PauseUpdate(r) \/ PauseCommit(r)
    \/ EndSelect(r) \/ EndReselect(r) \/ EndDelete(r) \/ EndUpdate(r)
    \/ EndWorkTime(r) \/ EndCommit(r) \/ EndNoActive(r)
    \/ StatusSelect(r) \/ StatusToday(r) \/ StatusActive(r)

\* the concurrent server under fair scheduling: a handler whose next
\* statement stays executable is eventually continued
SpecFair == Init /\ [][Next]_vars /\ \A r \in Reqs : WF_vars(HandlerStep(r))

NextWorkday ==
    \/ TickWorkday
    \/ \E r \in Reqs, s \in Sessions, k \in Kinds, b \in Notes \cup {""} :
          Launch(r, s, k, b)
    \/ \E r \in Reqs : StartSelect(r)
    \/ \E r \in Reqs : StartInsert(r)
    \/ \E r \in Reqs : StartCommit(r)
    \/ \E r \in Reqs : HandleStaleUpdate(r)
    \/ \E r \in Reqs : HandleStaleInsert(r)
    \/ \E r \in Reqs : PauseSelect(r)
    \/ \E r \in Reqs : PauseReselect(r)
    \/ \E r \in Reqs : PauseDelete(r)
    \/ \E r \in Reqs : PauseUpdate(r)
    \/ \E r \in Reqs : PauseCommit(r)
    \/ \E r \in Reqs : EndSelect(r)
    \/ \E r \in Reqs : EndReselect(r)
    \/ \E r \in Reqs : EndDelete(r)
    \/ \E r \in Reqs : EndUpdate(r)
    \/ \E r \in Reqs : EndWorkTime(r)
    \/ \E r \in Reqs : EndCommit(r)
    \/ \E r \in Reqs : EndNoActive(r)
    \/ \E r \in Reqs : StatusSelect(r)
    \/ \E r \in Reqs : StatusToday(r)
    \/ \E r \in Reqs : StatusActive(r)
    \/ \E r \in Reqs : StoreFailure(r)

SpecWorkday == InitWorkday /\ [][NextWorkday]_vars

\* ------------------------------------------------------------- absences
HOURS_PER_URLAUBSTAG_GLOBAL == 8

\* calendar dates are counted in days from 1970-01-01 (a Thursday); day 3 is
\* a Sunday, days 4 to 8 are Monday to Friday, days 9 and 10 a weekend
AbsenceRanges == { << 4, 8 >>, << 2, 5 >>, << 8, 11 >>, << 8, 4 >> }
Periods == { << 0, 12 >>, << 4, 8 >>, << 6, 9 >>, << 10, 10 >> }
AbsenceTypes == {"Krankheit", "Urlaub"}

\* Date.UTC(year, month, day): the instant at which the UTC calendar day begins
DateUTC(d) == d * DayMs

\* getUTCDay(): 0 is Sunday, 6 is Saturday
getUTCDay(t) == ((t \div DayMs) + 4) % 7

\* faulty variant: the day of the week is not looked at
CountWeekdays_AllDays(currentDateIter, loopUntilDate, reportPeriodStartObj, reportPeriodEndObj) ==
    ((loopUntilDate - currentDateIter) \div DayMs) * HOURS_PER_URLAUBSTAG_GLOBAL

RECURSIVE CountWeekdays(_, _, _, _)
\* the while loop over the days of one absence: the hours it adds
CountWeekdays(currentDateIter, loopUntilDate, reportPeriodStartObj, reportPeriodEndObj) ==
    IF ~(currentDateIter < loopUntilDate) THEN 0
    ELSE (IF /\ currentDateIter >= reportPeriodStartObj
             /\ currentDateIter <= reportPeriodEndObj
             /\ getUTCDay(currentDateIter) # 0
             /\ getUTCDay(currentDateIter) # 6
          THEN HOURS_PER_URLAUBSTAG_GLOBAL ELSE 0)
         + CountWeekdays(currentDateIter + DayMs, loopUntilDate,
                         reportPeriodStartObj, reportPeriodEndObj)

RECURSIVE ForEachAbsence(_, _, _)
\* vacationAbsences.forEach: the hours of all the absences selected
ForEachAbsence(vacationAbsences, reportPeriodStartObj, reportPeriodEndObj) ==
    IF vacationAbsences = {} THEN 0
    ELSE LET abw == CHOOSE a \in vacationAbsences : TRUE
         IN  CountWeekdays(DateUTC(abw.start_datum), DateUTC(abw.end_datum) + DayMs,
                           reportPeriodStartObj, reportPeriodEndObj)
             + ForEachAbsence(vacationAbsences \ {abw}, reportPeriodStartObj,
                              reportPeriodEndObj)

getVacationHoursForPeriodHelper(rows, benutzerId, periodStartDate, periodEndDate) ==
    LET vacationAbsences ==
            {a \in rows : /\ a.benutzerId = benutzerId
                          /\ a.abwesenheit_typ = "Urlaub"
                          /\ a.start_datum <= periodEndDate
                          /\ a.end_datum >= periodStartDate}
    IN  ForEachAbsence(vacationAbsences, DateUTC(periodStartDate),
                       DateUTC(periodEndDate) + DayMs - 1)

\* POST /api/admin/users/:userId/absences: INSERT INTO Abwesenheiten
CreateAbsence(userId, start_datum, end_datum, abwesenheit_typ) ==
    /\ sent < MaxRequests
    /\ sent' = sent + 1
    /\ Abwesenheiten' = Abwesenheiten \cup
         {[id |-> nextAbsenceId, benutzerId |-> userId, start_datum |-> start_datum,
           end_datum |-> end_datum, abwesenheit_typ |-> abwesenheit_typ]}
    /\ nextAbsenceId' = nextAbsenceId + 1
    /\ vacation' = NoVacation
    /\ UNCHANGED << tracking, accounts, reply >>

\* a caller asks for the vacation hours of a user in a period
VacationHoursForPeriod(benutzerId, periodStartDate, periodEndDate) ==
    /\ vacation' = [benutzerId |-> benutzerId, periodStartDate |-> periodStartDate,
                    periodEndDate |-> periodEndDate,
                    vacationHours |-> getVacationHoursForPeriodHelper(
                        Abwesenheiten, benutzerId, periodStartDate, periodEndDate)]
    /\ UNCHANGED << tracking, accounts, sent, Abwesenheiten, nextAbsenceId, reply >>

\* no timer runs; absences are recorded and vacation hours asked for
InitVacation == InitSeq /\ Arbeitszeiten = {}

NextVacation ==
    \/ \E u \in Users, range \in AbsenceRanges, typ \in AbsenceTypes :
          CreateAbsence(u, range[1], range[2], typ)
    \/ \E u \in Users, period \in Periods :
          VacationHoursForPeriod(u, period[1], period[2])

SpecVacation == InitVacation /\ [][NextVacation]_vars

\* ------------------------------------------------- reports and profiles
\* the head of the answer of an endpoint outside the timer
Answer(endpoint, user, code) ==
    [n |-> sent + 1, endpoint |-> endpoint, user |-> user, code |-> code]

\* the column total_urlaubstage_annually of Praktikanten (INT DEFAULT 10):
\* the administrator has given user 1 three days
\* (PUT /api/praktikanten/:userId/urlaubstage), user 2 has the default
total_urlaubstage_annually == [u \in Users |-> IF u = 1 THEN 3 ELSE 10]

\* `${currentYear}-01-01` and `${currentYear}-12-31`: the calendar of the
\* model is the first three weeks of 1970, all of them in the current year
yearStartDate == 0
yearEndDate == 20

\* Math.max
max(a, b) == IF a > b THEN a ELSE b

\* the zone of the server is Europe/Vienna: local time is UTC+1 or UTC+2
ServerZoneOffsets == { 3600000, 7200000 }

\* new Date(d) of a DATE column is local midnight of the day; getUTCFullYear,
\* getUTCMonth and getUTCDate of it give the UTC calendar day
UTCDateOfLocalMidnight(d, offset) == (d * DayMs - offset) \div DayMs

\* the duration a report shows for a segment: new Date() - start while the
\* timer runs, end - start when it is closed, and never less than 0
ShownDuration(entry, clock) ==
    LET durationMs == IF entry.endZeit = NULL THEN clock - entry.startZeit
                      ELSE entry.endZeit - entry.startZeit
    IN  IF durationMs > 0 THEN durationMs ELSE 0

\* the text of isAutoCutoffEntry's String.prototype.includes
includes(text, part) ==
    \E i \in 1 .. (Len(text) - Len(part) + 1) :
        SubSeq(text, i, i + Len(part) - 1) = part

\* faulty variant: the seconds of the end time are not looked at
isAutoCutoffEntry_AnySecond(entry) ==
    /\ entry.endZeit # NULL /\ entry.bericht # ""
    /\ (entry.endZeit % DayMs) \div 60000 = 23 * 60 + 59
    /\ \/ includes(entry.bericht, "Timer wurde automatisch um 23:59")
       \/ includes(entry.bericht, "Auto cut-off Notification")
       \/ includes(entry.bericht, "automatisch um 23:59 beendet")

\* isAutoCutoffEntry: getHours() = 23, getMinutes() = 59, getSeconds() = 0 of
\* the end time, and one of three texts in the note
isAutoCutoffEntry(entry) ==
    /\ entry.endZeit # NULL /\ entry.bericht # ""
    /\ (entry.endZeit % DayMs) \div 3600000 = 23
    /\ ((entry.endZeit % DayMs) % 3600000) \div 60000 = 59
    /\ ((entry.endZeit % DayMs) % 60000) \div 1000 = 0
    /\ \/ includes(entry.bericht, "Timer wurde automatisch um 23:59")
       \/ includes(entry.bericht, "Auto cut-off Notification")
       \/ includes(entry.bericht, "automatisch um 23:59 beendet")

RECURSIVE SumDurations(_, _)
\* consolidated[entryDate].durationMs += (durationMs > 0 ? durationMs : 0)
SumDurations(entries, clock) ==
    IF entries = {} THEN 0
    ELSE LET entry == CHOOSE e \in entries : TRUE
         IN  ShownDuration(entry, clock) + SumDurations(entries \ {entry}, clock)

\* faulty variant: a further segment of a day replaces the entry of the day
consolidate_LastOnly(berichte, clock) ==
    LET days == {LocalDate(e.startZeit) : e \in berichte}
    IN  { LET ofDay == {e \in berichte : LocalDate(e.startZeit) = datum}
              lastOne == CHOOSE e \in ofDay : \A o \in ofDay :
                            << o.startZeit, o.id >> = << e.startZeit, e.id >>
                            \/ o.startZeit < e.startZeit
                            \/ (o.startZeit = e.startZeit /\ o.id < e.id)
          IN  [datum |-> datum,
               durationMs |-> ShownDuration(lastOne, clock),
               isAutoCutoff |-> isAutoCutoffEntry(lastOne),
               segments |-> {[id |-> lastOne.id,
                              duration |-> ShownDuration(lastOne, clock),
                              bericht |-> lastOne.bericht]}]
          : datum \in days }

\* the object consolidated of GET /api/berichte and of the monthly report,
\* keyed by DATE_FORMAT(startZeit, '%d.%m.%Y'): one entry for a calendar day
\* with the durations of its segments added up and the segments themselves;
\* the numbers are those the answer renders as the texts dauer (HH:MM)
consolidate(berichte, clock) ==
    LET days == {LocalDate(e.startZeit) : e \in berichte}
    IN  { LET ofDay == {e \in berichte : LocalDate(e.startZeit) = datum}
          IN  [datum |-> datum,
               durationMs |-> SumDurations(ofDay, clock),
               isAutoCutoff |-> \E e \in ofDay : isAutoCutoffEntry(e),
               segments |-> {[id |-> e.id, duration |-> ShownDuration(e, clock),
                              bericht |-> e.bericht] : e \in ofDay}]
          : datum \in days }

\* GET /api/berichte: the consolidated entries of all the segments of the
\* caller
GetBerichte(s) ==
    LET benutzerId == SessionUser(s)
        berichte == {e \in Arbeitszeiten : e.benutzerId = benutzerId}
    IN  /\ sent < MaxRequests
        /\ sent' = sent + 1
        /\ reply' = Answer("GET /api/berichte", benutzerId, 200) @@
                    [reportEntries |-> consolidate(berichte, now)]
        /\ UNCHANGED << tracking, accounts, Abwesenheiten, nextAbsenceId, vacation >>

\* the months a report is asked for: January (days 0 to 30) and February
\* (days 31 to 58) of 1970
Months == { << 0, 30 >>, << 31, 58 >> }

\* the size of urlaubDaysSet: the Monday-to-Friday days of the current year in
\* the Urlaub absences of the user, every day counted once, the days taken
\* with the UTC getters from the local midnights of the DATE columns
urlaubDaysSet(rows, benutzerId, offset) ==
    LET urlaubstageImJahrRows ==
            {a \in rows : /\ a.benutzerId = benutzerId
                          /\ a.abwesenheit_typ = "Urlaub"
                          /\ a.start_datum <= yearEndDate
                          /\ a.end_datum >= yearStartDate}
    IN  UNION { {day \in UTCDateOfLocalMidnight(urlaub.start_datum, offset) ..
                         UTCDateOfLocalMidnight(urlaub.end_datum, offset) :
                   /\ day >= yearStartDate /\ day <= yearEndDate
                   /\ getUTCDay(DateUTC(day)) # 0
                   /\ getUTCDay(DateUTC(day)) # 6}
                : urlaub \in urlaubstageImJahrRows }

\* GET /api/berichte/monat/:monat: the consolidated work entries of the
\* segments started from `${monat}-01 00:00:00` to 23:59:59 of the last day
\* of the month, and internDetails with the vacation days of the year
GetMonatsbericht(s, monat, offset) ==
    LET benutzerId == SessionUser(s)
        berichteArbeitszeiten ==
            {e \in Arbeitszeiten : /\ e.benutzerId = benutzerId
                                   /\ LocalDate(e.startZeit) >= monat[1]
                                   /\ LocalDate(e.startZeit) <= monat[2]}
        usedUrlaubstageThisYear ==
            Cardinality(urlaubDaysSet(Abwesenheiten, benutzerId, offset))
    IN  /\ sent < MaxRequests
        /\ sent' = sent + 1
        /\ reply' = Answer("GET /api/berichte/monat/:monat", benutzerId, 200) @@
                    [monat |-> monat,
                     reportEntries |-> consolidate(berichteArbeitszeiten, now),
                     usedUrlaubstageThisYear |-> usedUrlaubstageThisYear,
                     remainingUrlaubstage |->
                         total_urlaubstage_annually[benutzerId]
                         - usedUrlaubstageThisYear]
        /\ UNCHANGED << tracking, accounts, Abwesenheiten, nextAbsenceId, vacation >>

\* GET /api/users/me/profile
GetMyProfile(s) ==
    LET benutzerId == SessionUser(s)
        vacationHoursUsed == getVacationHoursForPeriodHelper(
            Abwesenheiten, benutzerId, yearStartDate, yearEndDate)
        usedUrlaubstageThisYear == vacationHoursUsed \div HOURS_PER_URLAUBSTAG_GLOBAL
        totalUrlaubstage == total_urlaubstage_annually[benutzerId]
    IN  /\ sent < MaxRequests
        /\ sent' = sent + 1
        /\ reply' = Answer("GET /api/users/me/profile", benutzerId, 200) @@
                    [usedUrlaubstageThisYear |-> usedUrlaubstageThisYear,
                     remainingUrlaubstage |->
                         max(0, totalUrlaubstage - usedUrlaubstageThisYear)]
        /\ UNCHANGED << tracking, accounts, Abwesenheiten, nextAbsenceId, vacation >>

\* GET /api/admin/users/:id/profile, asked by an administrator
GetUserProfile(userId) ==
    LET vacationHoursForYear == getVacationHoursForPeriodHelper(
            Abwesenheiten, userId, yearStartDate, yearEndDate)
        usedUrlaubstageThisYear ==
            vacationHoursForYear \div HOURS_PER_URLAUBSTAG_GLOBAL
    IN  /\ sent < MaxRequests
        /\ sent' = sent + 1
        /\ reply' = Answer("GET /api/admin/users/:id/profile", userId, 200) @@
                    [usedUrlaubstageThisYear |-> usedUrlaubstageThisYear,
                     remainingUrlaubstage |->
                         total_urlaubstage_annually[userId]
                         - usedUrlaubstageThisYear]
        /\ UNCHANGED << tracking, accounts, Abwesenheiten, nextAbsenceId, vacation >>

\* POST /api/absences: the caller records an absence of their own
PostAbsence(s, start_datum, end_datum, abwesenheit_typ) ==
    /\ sent < MaxRequests
    /\ sent' = sent + 1
    /\ Abwesenheiten' = Abwesenheiten \cup
         {[id |-> nextAbsenceId, benutzerId |-> SessionUser(s),
           start_datum |-> start_datum, end_datum |-> end_datum,
           abwesenheit_typ |-> abwesenheit_typ]}
    /\ nextAbsenceId' = nextAbsenceId + 1
    /\ reply' = Answer("POST /api/absences", SessionUser(s), 201)
    /\ vacation' = NoVacation
    /\ UNCHANGED << tracking, accounts >>

\* UPDATE Abwesenheiten SET start_datum = ?, end_datum = ?, abwesenheit_typ = ?
\* for the rows hit
UpdateAbsences(hit, start_datum, end_datum, abwesenheit_typ) ==
    (Abwesenheiten \ hit) \cup
    {[a EXCEPT !.start_datum = start_datum, !.end_datum = end_datum,
               !.abwesenheit_typ = abwesenheit_typ] : a \in hit}

\* PUT /api/absences/:id: UPDATE ... WHERE id = ? AND benutzerId = ?
PutAbsence(s, id, start_datum, end_datum, abwesenheit_typ) ==
    LET hit == {a \in Abwesenheiten : a.id = id /\ a.benutzerId = SessionUser(s)}
    IN  /\ sent < MaxRequests
        /\ sent' = sent + 1
        /\ Abwesenheiten' = UpdateAbsences(hit, start_datum, end_datum, abwesenheit_typ)
        /\ reply' = Answer("PUT /api/absences/:id", SessionUser(s),
                           IF hit = {} THEN 404 ELSE 200)
        /\ vacation' = NoVacation
        /\ UNCHANGED << tracking, accounts, nextAbsenceId >>

\* PUT /api/admin/absences/:absenceId: UPDATE ... WHERE id = ?
AdminPutAbsence(absenceId, start_datum, end_datum, abwesenheit_typ) ==
    LET hit == {a \in Abwesenheiten : a.id = absenceId}
    IN  /\ sent < MaxRequests
        /\ sent' = sent + 1
        /\ Abwesenheiten' = UpdateAbsences(hit, start_datum, end_datum, abwesenheit_typ)
        /\ reply' = Answer("PUT /api/admin/absences/:absenceId", NULL,
                           IF hit = {} THEN 404 ELSE 200)
        /\ vacation' = NoVacation
        /\ UNCHANGED << tracking, accounts, nextAbsenceId >>

\* --------------------------------------------- notes and administration
RECURSIVE trim(_)
\* String.prototype.trim, for texts with blanks
trim(text) ==
    IF Len(text) > 0 /\ SubSeq(text, 1, 1) = " "
    THEN trim(SubSeq(text, 2, Len(text)))
    ELSE IF Len(text) > 0 /\ SubSeq(text, Len(text), Len(text)) = " "
    THEN trim(SubSeq(text, 1, Len(text) - 1))
    ELSE text

\* req.body.bericht of the note and administration endpoints
NoteTexts == { "", " Y", "automatisch um 23:59 beendet" }

\* the sessions that edit notes: one of user 1 and one of user 2
EditSessions == { "s1", "s3" }

\* the ids a request may name: those given out and the next one
BerichtIds == 1 .. nextId

\* the dates a request may name: day 0 and day 2
Dates == { 0, 2 }

\* startzeit and endzeit (HH:MM) of the administrator: 08:00 to 12:00,
\* 12:00 to 08:00, 08:00 to 23:59 and 00:30 to 08:00
AdminTimes == { << 28800000, 43200000 >>, << 43200000, 28800000 >>,
                << 28800000, 86340000 >>, << 1800000, 28800000 >> }

\* an UPDATE or DELETE outside the transactions waits while a transaction
\* holds the lock of a row it has to write
WriteBlocked(hit) == \E q \in Reqs : \E e \in hit : e.id \in locks[q]

\* UPDATE Arbeitszeiten SET bericht = ? for the rows hit
SetBericht(hit, text) ==
    (Arbeitszeiten \ hit) \cup {[e EXCEPT !.bericht = text] : e \in hit}

\* faulty variant: the owner of the segment is not looked at
PutBericht_NoOwnerCheck(s, berichtId, newBerichtText) ==
    LET benutzerId == SessionUser(s)
        berichtRows == {e \in Arbeitszeiten : e.id = berichtId}
        code == IF trim(newBerichtText) = "" THEN 400
                ELSE IF berichtRows = {} THEN 404
                ELSE IF \E entry \in berichtRows : isAutoCutoffEntry(entry) THEN 403
                ELSE 200
    IN  /\ sent < MaxRequests
        /\ code = 200 => ~WriteBlocked(berichtRows)
        /\ sent' = sent + 1
        /\ Arbeitszeiten' = IF code = 200
                            THEN SetBericht(berichtRows, trim(newBerichtText))
                            ELSE Arbeitszeiten
        /\ reply' = Answer("PUT /api/berichte/:berichtId", benutzerId, code) @@
                    [berichtId |-> berichtId]
        /\ UNCHANGED << now, nextId, session, pc, kind, sid, loc, tx, locks, last,
                        inflightLimit, accounts, client, Abwesenheiten, nextAbsenceId,
                        vacation >>

\* PUT /api/berichte/:berichtId: the caller rewrites the note of one segment
PutBericht(s, berichtId, newBerichtText) ==
    LET benutzerId == SessionUser(s)
        berichtRows == {e \in Arbeitszeiten : e.id = berichtId}
        code == IF trim(newBerichtText) = "" THEN 400
                ELSE IF berichtRows = {} THEN 404
                ELSE IF \E entry \in berichtRows : entry.benutzerId # benutzerId
                THEN 403
                ELSE IF \E entry \in berichtRows : isAutoCutoffEntry(entry) THEN 403
                ELSE 200
    IN  /\ sent < MaxRequests
        /\ code = 200 => ~WriteBlocked(berichtRows)
        /\ sent' = sent + 1
        /\ Arbeitszeiten' =
             IF code = 200
             THEN SetBericht({e \in berichtRows : e.benutzerId = benutzerId},
                             trim(newBerichtText))
             ELSE Arbeitszeiten
        /\ reply' = Answer("PUT /api/berichte/:berichtId", benutzerId, code) @@
                    [berichtId |-> berichtId]
        /\ UNCHANGED << now, nextId, session, pc, kind, sid, loc, tx, locks, last,
                        inflightLimit, accounts, client, Abwesenheiten, nextAbsenceId,
                        vacation >>

\* PUT /api/berichte/tag/:datum: the caller rewrites the notes of all the
\* segments of one day
PutTagesbericht(s, datum, newBerichtText) ==
    LET benutzerId == SessionUser(s)
        entries == {e \in Arbeitszeiten : /\ e.benutzerId = benutzerId
                                          /\ LocalDate(e.startZeit) = datum}
        code == IF trim(newBerichtText) = "" THEN 400
                ELSE IF entries = {} THEN 404
                ELSE 200
    IN  /\ sent < MaxRequests
        /\ code = 200 => ~WriteBlocked(entries)
        /\ sent' = sent + 1
        /\ Arbeitszeiten' = IF code = 200
                            THEN SetBericht(entries, trim(newBerichtText))
                            ELSE Arbeitszeiten
        /\ reply' = Answer("PUT /api/berichte/tag/:datum", benutzerId, code) @@
                    [datum |-> datum]
        /\ UNCHANGED << now, nextId, session, pc, kind, sid, loc, tx, locks, last,
                        inflightLimit, accounts, client, Abwesenheiten, nextAbsenceId,
                        vacation >>

\* the end of an entry of the administrator: an end before the start is put on
\* the next day
endZeitFull(startZeitFull, endZeitSameDay) ==
    IF endZeitSameDay - startZeitFull < 0 THEN endZeitSameDay + DayMs
    ELSE endZeitSameDay

\* faulty variant: the work entry is inserted without an end
AdminPostBericht_Open(benutzerId, datum, startzeit, endzeit, bericht, typ) ==
    /\ sent < MaxRequests
    /\ sent' = sent + 1
    /\ typ = "Arbeit" /\ bericht # ""
    /\ Arbeitszeiten' = Arbeitszeiten \cup
         {Row(nextId, benutzerId, datum * DayMs + startzeit, NULL, trim(bericht))}
    /\ nextId' = nextId + 1
    /\ reply' = Answer("POST /api/admin/berichte", benutzerId, 201) @@
                [datum |-> datum, startzeit |-> startzeit, endzeit |-> endzeit,
                 typ |-> typ]
    /\ UNCHANGED << now, session, pc, kind, sid, loc, tx, locks, last,
                    inflightLimit, accounts, client, Abwesenheiten, nextAbsenceId, vacation >>

\* POST /api/admin/berichte: the administrator records a work entry or a
\* one-day absence of a user
AdminPostBericht(benutzerId, datum, startzeit, endzeit, bericht, typ) ==
    LET startZeitFull == datum * DayMs + startzeit
        code == IF typ = "Arbeit" /\ bericht = "" THEN 400 ELSE 201
    IN  /\ sent < MaxRequests
        /\ sent' = sent + 1
        /\ IF typ = "Arbeit" /\ code = 201
           THEN /\ Arbeitszeiten' = Arbeitszeiten \cup
                     {Row(nextId, benutzerId, startZeitFull,
                          endZeitFull(startZeitFull, datum * DayMs + endzeit),
                          trim(bericht))}
                /\ nextId' = nextId + 1
                /\ UNCHANGED << Abwesenheiten, nextAbsenceId >>
           ELSE IF typ # "Arbeit"
           THEN /\ Abwesenheiten' = Abwesenheiten \cup
                     {[id |-> nextAbsenceId, benutzerId |-> benutzerId,
                       start_datum |-> datum, end_datum |-> datum,
                       abwesenheit_typ |-> typ]}
                /\ nextAbsenceId' = nextAbsenceId + 1
                /\ UNCHANGED << Arbeitszeiten, nextId >>
           ELSE UNCHANGED << Arbeitszeiten, nextId, Abwesenheiten, nextAbsenceId >>
        /\ reply' = Answer("POST /api/admin/berichte", benutzerId, code) @@
                    [datum |-> datum, startzeit |-> startzeit, endzeit |-> endzeit,
                     typ |-> typ]
        /\ UNCHANGED << now, session, pc, kind, sid, loc, tx, locks, last,
                        inflightLimit, accounts, client, vacation >>

\* PUT /api/admin/berichte/:id: the administrator rewrites note, start and end
\* of a segment; the times are read as `${localDateString}T${HH:MM}:00+02:00`
\* and stored in the local time of the server
AdminPutBericht(id, newBerichtText, startzeit, endzeit, offset) ==
    LET berichtRows == {e \in Arbeitszeiten : e.id = id}
        code == IF trim(newBerichtText) = "" THEN 400
                ELSE IF berichtRows = {} THEN 404
                ELSE 200
    IN  /\ sent < MaxRequests
        /\ code = 200 => ~WriteBlocked(berichtRows)
        /\ sent' = sent + 1
        /\ Arbeitszeiten' =
             IF code = 200
             THEN (Arbeitszeiten \ berichtRows) \cup
                  { LET localDate == LocalDate(e.startZeit) * DayMs
                        newStartSQLDateTime == localDate + startzeit - 7200000 + offset
                        newEndSQLDateTime == localDate + endzeit - 7200000 + offset
                    IN  [e EXCEPT !.bericht = trim(newBerichtText),
                                  !.startZeit = newStartSQLDateTime,
                                  !.endZeit = endZeitFull(newStartSQLDateTime,
                                                          newEndSQLDateTime)]
                    : e \in berichtRows }
             ELSE Arbeitszeiten
        /\ reply' = Answer("PUT /api/admin/berichte/:id", NULL, code) @@
                    [berichtId |-> id, startzeit |-> startzeit, endzeit |-> endzeit]
        /\ UNCHANGED << now, nextId, session, pc, kind, sid, loc, tx, locks, last,
                        inflightLimit, accounts, client, Abwesenheiten, nextAbsenceId,
                        vacation >>

\* DELETE /api/admin/berichte/:berichtId
AdminDeleteBericht(berichtId) ==
    LET hit == {e \in Arbeitszeiten : e.id = berichtId}
    IN  /\ sent < MaxRequests
        /\ ~WriteBlocked(hit)
        /\ sent' = sent + 1
        /\ Arbeitszeiten' = Arbeitszeiten \ hit
        /\ reply' = Answer("DELETE /api/admin/berichte/:berichtId", NULL,
                           IF hit = {} THEN 404 ELSE 200) @@
                    [berichtId |-> berichtId]
        /\ UNCHANGED << now, nextId, session, pc, kind, sid, loc, tx, locks, last,
                        inflightLimit, accounts, client, Abwesenheiten, nextAbsenceId,
                        vacation >>

\* the timer endpoints, one request at a time, with the note edits of the
\* users, the work entries of the administrator and the reports
NextAdmin ==
    \/ Tick
    \/ \E r \in Reqs, s \in Sessions, k \in Kinds, b \in Notes \cup {""} :
          Launch(r, s, k, b)
    \/ \E r \in Reqs : StartSelect(r)
    \/ \E r \in Reqs : StartInsert(r)
    \/ \E r \in Reqs : StartCommit(r)
    \/ \E r \in Reqs : HandleStaleUpdate(r)
    \/ \E r \in Reqs : HandleStaleInsert(r)
    \/ \E r \in Reqs : PauseSelect(r)
    \/ \E r \in Reqs : PauseReselect(r)
    \/ \E r \in Reqs : PauseDelete(r)
    \/ \E r \in Reqs : PauseUpdate(r)
    \/ \E r \in Reqs : PauseCommit(r)
    \/ \E r \in Reqs : EndSelect(r)
    \/ \E r \in Reqs : EndReselect(r)
    \/ \E r \in Reqs : EndDelete(r)
    \/ \E r \in Reqs : EndUpdate(r)
    \/ \E r \in Reqs : EndWorkTime(r)
    \/ \E r \in Reqs : EndCommit(r)
    \/ \E r \in Reqs : EndNoActive(r)
    \/ \E r \in Reqs : StatusSelect(r)
    \/ \E r \in Reqs : StatusToday(r)
    \/ \E r \in Reqs : StatusActive(r)
    \/ \E r \in Reqs : StoreFailure(r)
    \/ \E s \in EditSessions, id \in BerichtIds, text \in NoteTexts :
          PutBericht(s, id, text)
    \/ \E s \in EditSessions, datum \in Dates, text \in NoteTexts :
          PutTagesbericht(s, datum, text)
    \/ \E u \in Users, datum \in Dates, times \in AdminTimes, text \in NoteTexts,
          typ \in {"Arbeit", "Urlaub"} :
          AdminPostBericht(u, datum, times[1], times[2], text, typ)
    \/ \E id \in BerichtIds, text \in NoteTexts, times \in AdminTimes,
          offset \in ServerZoneOffsets :
          AdminPutBericht(id, text, times[1], times[2], offset)
    \/ \E id \in BerichtIds : AdminDeleteBericht(id)
    \/ \E s \in EditSessions : GetBerichte(s)
    \/ \E s \in EditSessions, monat \in Months, offset \in ServerZoneOffsets :
          GetMonatsbericht(s, monat, offset)

\* the table is empty, or user 1 has started the timer at 23:58:40 of day 0,
\* or at 23:59:10 of day 0
InitAdmin ==
    /\ \/ now = 86320000 /\ Arbeitszeiten = {} /\ nextId = 1
       \/ now = 86320000 /\ Arbeitszeiten = {Row(1, 1, 86320000, NULL, "")}
                         /\ nextId = 2
       \/ now = 86350000 /\ Arbeitszeiten = {Row(1, 1, 86350000, NULL, "")}
                         /\ nextId = 2
    /\ session = [s \in Sessions |-> {}]
    /\ pc = [r \in Reqs |-> "idle"]
    /\ kind = [r \in Reqs |-> "start"]
    /\ sid = [r \in Reqs |-> "s1"]
    /\ loc = [r \in Reqs |-> InitLoc]
    /\ tx = [r \in Reqs |-> EmptyTx]
    /\ locks = [r \in Reqs |-> {}]
    /\ sent = 0
    /\ last = NoLast
    /\ client = NoClient
    /\ inflightLimit = 1
    /\ InitAbsences

SpecAdmin == InitAdmin /\ [][NextAdmin]_vars

\* ------------------------------------------------------ the timer page
\* the instants of the page: day 0 13:00:05, 13:00:08, 13:00:16 and 13:00:45,
\* and day 1 13:00:00
ClientInstants == { 46805000, 46808000, 46816000, 46845000, 133200000 }

\* user 1 has started the timer at 13:00:00 of day 0 and has loaded the page
\* at 13:00:05: initZeiterfassung has set the running state and the first
\* aktualisiereTimerDisplay has taken the status over
InitClient ==
    /\ now = 46805000
    /\ Arbeitszeiten = {Row(1, 1, 46800000, NULL, "")} /\ nextId = 2
    /\ session = [s \in Sessions |-> {}]
    /\ pc = [r \in Reqs |-> "idle"]
    /\ kind = [r \in Reqs |-> "start"]
    /\ sid = [r \in Reqs |-> "s1"]
    /\ loc = [r \in Reqs |-> InitLoc]
    /\ tx = [r \in Reqs |-> EmptyTx]
    /\ locks = [r \in Reqs |-> {}]
    /\ sent = 0
    /\ last = NoLast
    /\ client = [interval |-> TRUE, istVisuellAktiv |-> TRUE,
                 currentSegmentStartTime |-> 46800000,
                 serverTotalDurationMs |-> 0, lastServerSync |-> 46805000,
                 fetching |-> 0,
                 display |-> formatRemainingTime(workdayDurationMs - 5000)]
    /\ inflightLimit = 2
    /\ InitAbsences

\* time passes on the page
TickClient ==
    /\ \E t \in ClientInstants : t > now /\ now' = t
    /\ UNCHANGED << Arbeitszeiten, nextId, session, pc, kind, sid, loc, tx,
                    locks, last, inflightLimit, accounts, absences, sent, client >>

\* window.lastServerSync is unset or more than 10000 ms old
SyncDue == client.lastServerSync = NULL \/ now - client.lastServerSync > 10000

\* setInterval(aktualisiereTimerDisplay, 1000) fires and the sync is due:
\* fetch('/api/zeiterfassung/status') with the session of the page
ClientFetch(r) ==
    /\ client.interval /\ client.fetching = 0
    /\ SyncDue
    /\ ~Running(r)
    /\ \A q \in Reqs : q < r => Running(q)
    /\ Cardinality({q \in Reqs : Running(q)}) < inflightLimit
    /\ sent < MaxRequests
    /\ sent' = sent + 1
    /\ pc' = [pc EXCEPT ![r] = "select"]
    /\ kind' = [kind EXCEPT ![r] = "status"]
    /\ sid' = [sid EXCEPT ![r] = "s1"]
    /\ loc' = [loc EXCEPT ![r] = [InitLoc EXCEPT !.t = now]]
    /\ client' = [client EXCEPT !.fetching = r]
    /\ UNCHANGED << now, Arbeitszeiten, nextId, session, tx, locks, last,
                    inflightLimit, accounts, absences >>

\* setInterval(aktualisiereTimerDisplay, 1000) fires and the sync is not due:
\* the display is computed from the values of the page
ClientTick ==
    /\ client.interval /\ client.fetching = 0
    /\ ~SyncDue
    /\ client.istVisuellAktiv /\ client.currentSegmentStartTime # NULL
    /\ client' = [client EXCEPT !.display = formatRemainingTime(
                     workdayDurationMs - (client.serverTotalDurationMs
                        + (now - client.currentSegmentStartTime)))]
    /\ UNCHANGED << now, Arbeitszeiten, nextId, session, pc, kind, sid, loc, tx,
                    locks, last, inflightLimit, accounts, absences, sent >>

\* the page with its timer running, the status and pause requests of user 1
\* (the page itself or another tab) and the work entries the administrator
\* records for the current day
NextClient ==
    \/ TickClient
    \/ ClientTick
    \/ \E r \in Reqs : ClientFetch(r)
    \/ \E r \in Reqs, s \in {"s1", "s2"}, k \in {"pause", "status"},
          b \in Notes \cup {""} : Launch(r, s, k, b)
    \/ \E r \in Reqs : HandleStaleUpdate(r)
    \/ \E r \in Reqs : HandleStaleInsert(r)
    \/ \E r \in Reqs : PauseSelect(r)
    \/ \E r \in Reqs : PauseReselect(r)
    \/ \E r \in Reqs : PauseDelete(r)
    \/ \E r \in Reqs : PauseUpdate(r)
    \/ \E r \in Reqs : PauseCommit(r)
    \/ \E r \in Reqs : StatusSelect(r)
    \/ \E r \in Reqs : StatusToday(r)
    \/ \E r \in Reqs : StatusActive(r)
    \/ \E r \in Reqs : StoreFailure(r)
    \/ \E times \in AdminTimes :
          AdminPostBericht(1, LocalDate(now), times[1], times[2], "Y", "Arbeit")

SpecClient == InitClient /\ [][NextClient]_vars

\* the ids an absence request may name: those given out and the next one
AbsenceIds == 1 .. nextAbsenceId

\* absences are recorded and edited by users and the administrator, and the
\* profiles and the monthly report are read
NextProfile ==
    \/ \E u \in Users, range \in AbsenceRanges, typ \in AbsenceTypes :
          CreateAbsence(u, range[1], range[2], typ)
    \/ \E s \in Sessions, range \in AbsenceRanges, typ \in AbsenceTypes :
          PostAbsence(s, range[1], range[2], typ)
    \/ \E s \in Sessions, id \in AbsenceIds, range \in AbsenceRanges,
          typ \in AbsenceTypes : PutAbsence(s, id, range[1], range[2], typ)
    \/ \E id \in AbsenceIds, range \in AbsenceRanges, typ \in AbsenceTypes :
          AdminPutAbsence(id, range[1], range[2], typ)
    \/ \E s \in Sessions : GetMyProfile(s)
    \/ \E u \in Users : GetUserProfile(u)
    \/ \E s \in Sessions, monat \in Months, offset \in ServerZoneOffsets :
          GetMonatsbericht(s, monat, offset)

SpecProfile == InitVacation /\ [][NextProfile]_vars

\* ------------------------------------------------------------- properties
\* the notification entries of user u at cutoff time c
Notifications(rows, u, c) ==
    {x \in rows : x.benutzerId = u /\ x.startZeit = c /\ x.endZeit = c
                  /\ x.bericht = AutoCutoffNote}

IsNotification(x) == x.bericht = AutoCutoffNote /\ x.startZeit = x.endZeit

\* 23:59:00 of local day d
DayCutoff(d) == d * DayMs + 86340000

\* request r takes a step that answers it
Answers(r) == pc[r] # "idle" /\ pc'[r] = "idle"

\* C1: every user has at most one segment whose endZeit is NULL.
C1_AtMostOneOpenSegment ==
    \A u \in Users : Cardinality(OpenRows(Arbeitszeiten, u)) <= 1

\* C2: of two concurrent start requests of a user at most one commits an open
\* segment: no step adds an open segment to the table for a user who already
\* has one there.
C2_OnlyOneStartCommits ==
    [][\A u \in Users :
         Cardinality(OpenRows(Arbeitszeiten', u)) > Cardinality(OpenRows(Arbeitszeiten, u))
         => OpenRows(Arbeitszeiten, u) = {}]_vars

\* request r is a pause or end_workday request that has read an open segment
\* and has not been answered yet
HoldsOpenSegment(r) ==
    /\ kind[r] \in {"pause", "end"}
    /\ pc[r] \notin {"idle", "select"}
    /\ loc[r].rec # NoRow

C4_NoStaleSegmentAfterRequest ==
    [][\A r \in Reqs :
         (Answers(r) /\ last'.resp.code # 500)
         => \A x \in OpenRows(Arbeitszeiten', SessionUser(sid[r])) :
              LocalDate(x.startZeit) >= LocalDate(now')]_vars

C6_StatusTwice ==
    [][/\ (last.kind = "status" /\ last.resp.code = 200 /\ last.timerId # NULL)
          => last.resp.autoCutoffDetected
       /\ \A r \in Reqs :
            (/\ Answers(r) /\ kind[r] = "status" /\ last'.resp.code = 200
             /\ last.kind = "status" /\ last.resp.code = 200
             /\ last.timerId # NULL /\ last.user = SessionUser(sid[r]))
            => /\ ~last'.resp.autoCutoffDetected
               /\ \E x \in Arbeitszeiten' :
                    /\ x.id = last.timerId
                    /\ Cardinality(Notifications(Arbeitszeiten', last.user,
                           DayCutoff(LocalDate(x.startZeit)))) = 1]_vars

\* C6 witness: the second of two status requests in a row has answered
\* autoCutoffDetected = false and the notification entry of the first exists.
C6_Witness ==
    /\ last.kind = "status" /\ last.resp.code = 200
    /\ ~last.resp.autoCutoffDetected /\ last.timerId = NULL
    /\ sent = 2
    /\ \E s \in Sessions : SessionUser(s) = last.user /\ session[s] # {}
    /\ \E x \in Arbeitszeiten : x.benutzerId = last.user /\ IsNotification(x)

\* C7: reconciliation is atomic: whenever no request of the user is running,
\* a segment closed at the cutoff time of its day has its notification entry,
\* and no notification entry exists for a segment that is still open.
C7_ReconciliationAtomic ==
    \A u \in Users :
        (\A r \in Reqs : pc[r] # "idle" => SessionUser(sid[r]) # u)
        => \A x \in Arbeitszeiten :
             (x.benutzerId = u /\ ~IsNotification(x))
             => LET cutoff == DayCutoff(LocalDate(x.startZeit))
                IN  /\ x.endZeit = cutoff
                       => Notifications(Arbeitszeiten, u, cutoff) # {}
                    /\ x.endZeit = NULL
                       => Notifications(Arbeitszeiten, u, cutoff) = {}

\* C8: reconciliation is never applied twice: the table never holds more than
\* one notification entry of a user for the same cutoff time.
C8_AtMostOneNotification ==
    \A u \in Users : \A x \in Arbeitszeiten :
        Cardinality(Notifications(Arbeitszeiten, u, x.startZeit)) <= 1

\* C9: a start, pause or end_workday request changes the table only by its
\* commit: none of its other steps, and no step that ends in the store error,
\* changes the table, so after a failure the table is as it was before.
C9_FailureRollsBack ==
    [][\A r \in Reqs :
         (/\ pc[r] # "idle" /\ kind[r] # "status" /\ pc'[r] # pc[r]
          /\ (pc[r] \notin {"commit", "reselect"} \/ last'.resp.code = 500))
         => Arbeitszeiten' = Arbeitszeiten]_vars

\* C9 witness: a start request has inserted its row (the id is used up), has
\* then failed, and the table does not hold the row.
C9_Witness ==
    /\ last.kind = "start" /\ last.resp.code = 500
    /\ \A x \in Arbeitszeiten : x.id < nextId - 1
    /\ nextId > 1 /\ sent = 1

\* C10: every closed segment has endZeit >= startZeit.
C10_EndNotBeforeStart ==
    \A x \in Arbeitszeiten : x.endZeit # NULL => x.endZeit >= x.startZeit

\* the ids of the rows of a table
Ids(rows) == {x.id : x \in rows}

\* request r takes a step of its handler that is not the store error
Steps(r) == pc[r] # "idle" /\ pc'[r] # pc[r] /\ last'.resp.code # 500

\* C11: a start request whose SELECT finds an open segment of the user is
\* answered AlreadyActive and leaves the table as it is; a start request that
\* is answered with success has added exactly one row to the table, a row of
\* the user with startZeit = the time the request read, endZeit NULL and an
\* empty note; no other step of a start request changes the table.
C11_StartContract ==
    [][\A r \in Reqs :
         (kind[r] = "start" /\ pc[r] # "idle" /\ pc'[r] # pc[r])
         => LET u == SessionUser(sid[r])
            IN  /\ (Steps(r) /\ pc[r] = "select" /\ OpenRows(Arbeitszeiten, u) # {})
                   => /\ pc'[r] = "idle"
                      /\ last'.resp = Response(400, "AlreadyActive")
                /\ (Steps(r) /\ pc[r] = "select" /\ OpenRows(Arbeitszeiten, u) = {})
                   => pc'[r] = "insert"
                /\ IF pc'[r] = "idle" /\ last'.resp.code = 200
                   THEN \E x \in Arbeitszeiten' :
                          /\ x.id \notin Ids(Arbeitszeiten)
                          /\ x = Row(x.id, u, loc[r].t, NULL, "")
                          /\ Arbeitszeiten' = Arbeitszeiten \cup {x}
                   ELSE Arbeitszeiten' = Arbeitszeiten]_vars

\* C11 witness: a start request has inserted the open segment of a user and a
\* second start request of that user has been answered AlreadyActive.
C11_Witness ==
    /\ last.kind = "start" /\ last.resp = Response(400, "AlreadyActive")
    /\ sent = 2
    /\ \E x \in OpenRows(Arbeitszeiten, last.user) :
         x.id = nextId - 1 /\ x.id = 1 /\ x.bericht = "" /\ x.startZeit < now

\* the open segment of user u in a table is one segment and it was started on
\* an earlier local day than the clock shows
HasStaleSegment(rows, u, clock) ==
    /\ Cardinality(OpenRows(rows, u)) = 1
    /\ \A x \in OpenRows(rows, u) : LocalDate(x.startZeit) # LocalDate(clock)

\* C12: a pause request whose SELECT finds no open segment of the user is
\* answered NoActiveSegment and leaves the table as it is; a pause request
\* whose SELECT finds the user's open segment stale reconciles it and, when
\* its second SELECT finds no open segment left, is answered with a failure.
C12_PauseWithoutSegment ==
    [][\A r \in Reqs :
         (kind[r] = "pause" /\ Steps(r))
         => LET u == SessionUser(sid[r])
            IN  /\ (pc[r] = "select" /\ OpenRows(Arbeitszeiten, u) = {})
                   => /\ pc'[r] = "idle"
                      /\ last'.resp = Response(400, "NoActiveSegment")
                      /\ Arbeitszeiten' = Arbeitszeiten
                /\ (pc[r] = "select" /\ HasStaleSegment(Arbeitszeiten, u, now))
                   => pc'[r] = "stale_update" /\ loc'[r].stale
                /\ (pc[r] = "reselect" /\ OpenRows(View(r), u) = {})
                   => /\ pc'[r] = "idle"
                      /\ last'.resp = Response(400, "StaleCutoff")
                /\ (pc'[r] = "idle" /\ loc[r].stale /\ OpenRows(View(r), u) = {})
                   => last'.resp.code = 400]_vars

\* C12 witness: a pause request on a stale segment has been answered with the
\* failure that tells of the automatic end at 23:59.
C12_Witness ==
    /\ last.kind = "pause" /\ last.resp = Response(400, "StaleCutoff")
    /\ last.timerId # NULL
    /\ LocalDate(now) = 2

\* C13: a pause request that finds a segment of today running for less than 30 s is
\* answered with success and removes from the table exactly that segment, a
\* row as start_segment inserts it (open, empty note), so that the table and
\* the daily total are what they were before the start; after one start and
\* such a pause the table is empty again.
C13_ShortSegmentDiscarded ==
    /\ [][\A r \in Reqs :
            (kind[r] = "pause" /\ Answers(r) /\ last'.resp.code = 200
             /\ ~loc[r].stale
             /\ loc[r].t - loc[r].rec.startZeit < MINIMUM_DURATION_MS)
            => LET u == SessionUser(sid[r])
                   seg == loc[r].rec
               IN  /\ last'.resp = Response(200, "TooShort")
                   /\ seg = Row(seg.id, u, seg.startZeit, NULL, "")
                   /\ seg \in Arbeitszeiten
                   /\ Arbeitszeiten' = Arbeitszeiten \ {seg}
                   /\ getTodayWorkTimeHelper(Arbeitszeiten', u, now) =
                        getTodayWorkTimeHelper(Arbeitszeiten, u, now)]_vars
    /\ [](( /\ last.kind = "pause" /\ last.resp = Response(200, "TooShort")
            /\ nextId = 2 )
          => Arbeitszeiten = {})

\* C13 witness: a segment was started, paused 15 s later and discarded; the
\* table is as empty as before the start.
C13_Witness ==
    /\ last.kind = "pause" /\ last.resp = Response(200, "TooShort")
    /\ sent = 2 /\ nextId = 2 /\ now = 86335000
    /\ Arbeitszeiten = {}

\* the total of the closed segments of user u that started on local day d
DayTotal(rows, u, d) == SumPositiveDurations(TodayRows(rows, u, d))

\* C14: a pause request that finds the user's open segment not stale and
\* running for at least 30 s (30 s included) goes on to close it; when it is
\* answered, the segment is still in the table with endZeit = the time the
\* request read and the note of the request, nothing else has changed, and
\* the total of the segment's day has grown by exactly endZeit - startZeit.
C14_PauseClosesSegment ==
    [][\A r \in Reqs :
         (kind[r] = "pause" /\ Steps(r))
         => LET u == SessionUser(sid[r])
                seg == loc[r].rec
                closed == [seg EXCEPT !.endZeit = loc[r].t,
                                      !.bericht = loc[r].bericht]
            IN  /\ ( /\ pc[r] = "select"
                     /\ OpenRows(Arbeitszeiten, u) # {}
                     /\ \A x \in OpenRows(Arbeitszeiten, u) :
                          /\ ~isTimerFromPreviousDay(x.startZeit, now)
                          /\ loc[r].t - x.startZeit >= MINIMUM_DURATION_MS )
                   => /\ pc'[r] = "update"
                      /\ loc'[r].rec \in OpenRows(Arbeitszeiten, u)
                /\ ( /\ pc'[r] = "idle" /\ ~loc[r].stale
                     /\ seg # NoRow
                     /\ loc[r].t - seg.startZeit >= MINIMUM_DURATION_MS )
                   => /\ last'.resp = Response(200, "paused")
                      /\ seg \in OpenRows(Arbeitszeiten, u)
                      /\ Arbeitszeiten' = (Arbeitszeiten \ {seg}) \cup {closed}
                      /\ DayTotal(Arbeitszeiten', u, LocalDate(seg.startZeit)) =
                           DayTotal(Arbeitszeiten, u, LocalDate(seg.startZeit))
                           + (loc[r].t - seg.startZeit)]_vars

\* C14 witness: started at 13:00:00 and paused at 13:00:45 with note "X":
\* one closed segment and a total of 45000 ms.
C14_Witness ==
    /\ last.kind = "pause" /\ last.resp = Response(200, "paused")
    /\ Arbeitszeiten = {Row(1, 1, 46800000, 46845000, "X")}
    /\ getTodayWorkTimeHelper(Arbeitszeiten, 1, now) = 45000

\* the not-enough-time and nothing-logged answers of end_workday
QuotaNotMetAnswers == {"QuotaNotMet", "TooShortQuotaNotMet", "NothingLogged"}

C16_CloseKeptOnQuotaNotMet ==
    [][\A r \in Reqs :
         (/\ kind[r] = "end" /\ Answers(r) /\ last'.resp.code = 400
          /\ loc[r].rec # NoRow
          /\ loc[r].t - loc[r].rec.startZeit >= MINIMUM_DURATION_MS)
         => LET u == SessionUser(sid[r])
                seg == loc[r].rec
                closed == [seg EXCEPT !.endZeit = loc[r].t,
                                      !.bericht = loc[r].bericht]
            IN  /\ last'.resp = Response(400, "QuotaNotMet")
                /\ seg \in OpenRows(Arbeitszeiten, u)
                /\ Arbeitszeiten' = (Arbeitszeiten \ {seg}) \cup {closed}
                /\ OpenRows(Arbeitszeiten', u) = {}]_vars

\* C16 witness: 08:00-12:00 was logged and the segment started at 13:00:00 is
\* ended at 16:59:59: the answer is QuotaNotMet and the segment is closed.
C16_Witness ==
    /\ last.kind = "end" /\ last.resp = Response(400, "QuotaNotMet")
    /\ Row(2, 1, 46800000, 61199000, "X") \in Arbeitszeiten
    /\ OpenRows(Arbeitszeiten, 1) = {}

\* C17: an end_workday request whose SELECT finds no open segment of the user
\* changes the table in none of its steps; it is answered NothingLogged
\* exactly when the user's total of the current local day is 0, and from a
\* total above 0 with success when that total is at least 8 h and with
\* QuotaNotMet when it is less.
C17_EndWithoutSegment ==
    [][\A r \in Reqs :
         (kind[r] = "end" /\ Steps(r))
         => LET u == SessionUser(sid[r])
                total == DayTotal(Arbeitszeiten, u, LocalDate(now))
            IN  /\ (pc[r] = "select" /\ OpenRows(Arbeitszeiten, u) = {})
                   => pc'[r] = "worktime_none" /\ Arbeitszeiten' = Arbeitszeiten
                /\ pc[r] = "worktime_none"
                   => /\ pc'[r] = "idle"
                      /\ Arbeitszeiten' = Arbeitszeiten
                      /\ last'.resp.msg = "NothingLogged" <=> total = 0
                      /\ last'.resp =
                           IF total = 0 THEN Response(400, "NothingLogged")
                           ELSE IF total >= workdayDurationMs
                           THEN Response(200, "ended")
                           ELSE Response(400, "QuotaNotMet")]_vars

\* C17 witness: 08:00-16:00 is logged and nothing is open; end_workday has
\* answered with success and the table is what it was.
C17_Witness ==
    /\ last.kind = "end" /\ last.resp = Response(200, "ended")
    /\ sent = 1
    /\ Arbeitszeiten = {Row(1, 1, 28800000, 57600000, "X")}

\* the table a pause or end_workday request leaves that found the open
\* segment seg in table rows and read the time t: a stale segment is
\* reconciled, one shorter than 30 s is deleted, any other is closed at t
LeavesSegments(rows, after, seg, stale, t, note) ==
    IF stale
    THEN \E n \in after \ rows :
           /\ n = Row(n.id, seg.benutzerId, getMidnightCutoffTime(seg.startZeit),
                      getMidnightCutoffTime(seg.startZeit), AutoCutoffNote)
           /\ after = (rows \ {seg}) \cup
                {[seg EXCEPT !.endZeit = getMidnightCutoffTime(seg.startZeit)], n}
    ELSE IF t - seg.startZeit < MINIMUM_DURATION_MS
    THEN after = rows \ {seg}
    ELSE after = (rows \ {seg}) \cup {[seg EXCEPT !.endZeit = t, !.bericht = note]}

\* C18: pause and end_workday treat the user's open segment alike: whichever
\* of the two is answered, the table it leaves is the same function of the
\* table it found, the segment, the clock and the note.
C18_PauseAndEndLeaveSameSegments ==
    [][\A r \in Reqs :
         (/\ kind[r] \in {"pause", "end"} /\ Answers(r) /\ last'.resp.code # 500
          /\ loc[r].rec # NoRow /\ loc[r].n = 1)
         => LeavesSegments(Arbeitszeiten, Arbeitszeiten', loc[r].rec,
                           loc[r].stale, loc[r].t, loc[r].bericht)]_vars

RECURSIVE SumOf(_, _)
\* the sum of f[x] over the rows x
SumOf(rows, f) ==
    IF rows = {} THEN 0
    ELSE LET x == CHOOSE y \in rows : TRUE
         IN  f[x] + SumOf(rows \ {x}, f)

\* the daily worked total of user u for local day d as the claim defines it:
\* endZeit - startZeit over the closed segments started on d, plus
\* clock - startZeit for the open segment when d is the day of clock
ClaimedDailyTotal(rows, u, d, clock) ==
    LET closedOnDay == {x \in rows : /\ x.benutzerId = u /\ x.endZeit # NULL
                                     /\ x.startZeit \div DayMs = d}
        stillOpen == {x \in rows : x.benutzerId = u /\ x.endZeit = NULL}
    IN  SumOf(closedOnDay, [x \in rows |-> x.endZeit - x.startZeit])
        + (IF d = clock \div DayMs
           THEN SumOf(stillOpen, [x \in rows |-> clock - x.startZeit])
           ELSE 0)

\* C19: the total of today that end_workday computes, and the total the client
\* forms from a status answer (its total plus the time since the start of the
\* active segment), equal the sum of endZeit - startZeit over the user's
\* closed segments started today plus now - startZeit of the open segment.
C19_DailyTotal ==
    [][\A r \in Reqs :
         Steps(r)
         => LET u == SessionUser(sid[r])
            IN  /\ (kind[r] = "end" /\ pc[r] = "worktime")
                   => loc'[r].total =
                        ClaimedDailyTotal(View(r), u, LocalDate(now), now)
                /\ (kind[r] = "end" /\ pc[r] = "worktime_none")
                   => (last'.resp.msg = "NothingLogged")
                      = (ClaimedDailyTotal(Arbeitszeiten, u, LocalDate(now), now) = 0)
                /\ (kind[r] = "status" /\ pc'[r] = "idle"
                    /\ LocalDate(loc[r].t) = LocalDate(now))
                   => totalWorkedMs(last'.resp, now) =
                        ClaimedDailyTotal(Arbeitszeiten', u, LocalDate(now), now)]_vars

\* C19 witness: 08:00-12:00 is logged and a segment runs since 13:00:00; at
\* 13:00:45 a status answer gives the client a total of 4 h and 45 s.
C19_Witness ==
    /\ last.kind = "status" /\ last.resp.code = 200
    /\ last.resp.activeSegmentStartTime = 46800000
    /\ now = 46845000
    /\ totalWorkedMs(last.resp, now) = 4 * 60 * 60 * 1000 + 45000
    /\ ClaimedDailyTotal(Arbeitszeiten, 1, 0, now) = 4 * 60 * 60 * 1000 + 45000

\* C20: the vacation hours of a user for a period are 8 times the number of
\* pairs (absence, day) in which the absence is an Urlaub absence of the user
\* and the day is a Monday to Friday (days 4 to 8 of every week counted from
\* day 4) that lies in the range of the absence and in the period.
C20_VacationHours ==
    vacation # NoVacation
    => vacation.vacationHours =
         8 * Cardinality(
               {p \in Abwesenheiten \X (0 .. 13) :
                  /\ p[1].benutzerId = vacation.benutzerId
                  /\ p[1].abwesenheit_typ = "Urlaub"
                  /\ p[1].start_datum <= p[2] /\ p[2] <= p[1].end_datum
                  /\ vacation.periodStartDate <= p[2]
                  /\ p[2] <= vacation.periodEndDate
                  /\ (p[2] + 3) % 7 < 5})

\* C20 witness: the user has an Urlaub absence from Monday to Friday and a
\* Krankheit absence; for a period that holds the week the hours are 40.
C20_Witness ==
    /\ vacation.vacationHours = 40
    /\ vacation.periodStartDate = 0 /\ vacation.periodEndDate = 12
    /\ \E a, b \in Abwesenheiten :
         /\ a.benutzerId = vacation.benutzerId /\ b.benutzerId = vacation.benutzerId
         /\ a.abwesenheit_typ = "Urlaub" /\ a.start_datum = 4 /\ a.end_datum = 8
         /\ b.abwesenheit_typ = "Krankheit"

\* the endpoints that report the remaining vacation days of a user
ProfileEndpoints ==
    { "GET /api/users/me/profile", "GET /api/admin/users/:id/profile",
      "GET /api/berichte/monat/:monat" }

\* C21: no endpoint reports a negative number of remaining vacation days.
C21_RemainingNeverNegative ==
    reply.endpoint \in ProfileEndpoints => reply.remainingUrlaubstage >= 0

\* C25: every absence has start_datum <= end_datum.
C25_StartNotAfterEnd ==
    \A a \in Abwesenheiten : a.start_datum <= a.end_datum

\* the answered request is a note edit of a user
NoteEditStep ==
    /\ reply'.n # reply.n
    /\ reply'.endpoint \in { "PUT /api/berichte/:berichtId",
                             "PUT /api/berichte/tag/:datum" }

\* C22: a note edit of a user (per segment or per day) leaves every
\* notification segment of the reconciler with the note it was created with.
C22_NotificationNeverEdited ==
    [][ NoteEditStep =>
          \A x \in Arbeitszeiten :
             IsNotification(x) => \E y \in Arbeitszeiten' :
                                     y.id = x.id /\ y.bericht = AutoCutoffNote ]_vars

\* the answered request is an operation of the administrator on segments
AdminStep ==
    /\ reply'.n # reply.n
    /\ reply'.endpoint \in { "POST /api/admin/berichte",
                             "PUT /api/admin/berichte/:id",
                             "DELETE /api/admin/berichte/:berichtId" }

\* C23: create, edit and delete of the administrator never add an open
\* segment and never reopen a closed one, so no user has more open segments
\* after the operation than before.
C23_AdminNeverOpens ==
    [][ AdminStep =>
          /\ \A y \in Arbeitszeiten' :
                y.endZeit = NULL =>
                   \E x \in Arbeitszeiten : x.id = y.id /\ x.endZeit = NULL
          /\ \A u \in Users :
                Cardinality({y \in Arbeitszeiten' :
                                y.benutzerId = u /\ y.endZeit = NULL})
                <= Cardinality({x \in Arbeitszeiten :
                                   x.benutzerId = u /\ x.endZeit = NULL}) ]_vars

\* the administrator has added a closed work entry for a user whose timer
\* is running
C23_Witness ==
    /\ reply.endpoint = "POST /api/admin/berichte"
    /\ reply.code = 201
    /\ \E x, y \in Arbeitszeiten :
          /\ x.benutzerId = reply.user /\ x.endZeit = NULL
          /\ y.benutzerId = reply.user /\ y.endZeit # NULL /\ y.bericht = "Y"

\* C26: a note edit never changes a segment of a user other than the caller,
\* and the per-segment edit of a segment owned by someone else answers 403
\* and leaves the table as it is.
C26_NoCrossUserEdit ==
    [][ NoteEditStep =>
          /\ \A x \in Arbeitszeiten :
                x.benutzerId # reply'.user => x \in Arbeitszeiten'
          /\ \A y \in Arbeitszeiten' :
                y.benutzerId # reply'.user => y \in Arbeitszeiten
          /\ ( /\ reply'.endpoint = "PUT /api/berichte/:berichtId"
               /\ reply'.code # 400
               /\ \E x \in Arbeitszeiten :
                     x.id = reply'.berichtId /\ x.benutzerId # reply'.user )
             => reply'.code = 403 /\ Arbeitszeiten' = Arbeitszeiten ]_vars

\* user 2 has asked to rewrite the note of a segment of user 1 and was refused
C26_Witness ==
    /\ reply.endpoint = "PUT /api/berichte/:berichtId"
    /\ reply.code = 403
    /\ reply.user = 2
    /\ \E x \in Arbeitszeiten :
          x.id = reply.berichtId /\ x.benutzerId = 1 /\ ~isAutoCutoffEntry(x)

\* the segments of user u that a report of the days from firstDay to lastDay shows
ReportedSegments(u, firstDay, lastDay) ==
    {x \in Arbeitszeiten : /\ x.benutzerId = u
                           /\ x.startZeit \div DayMs >= firstDay
                           /\ x.startZeit \div DayMs <= lastDay}

\* the duration of a segment, open segments taken up to the clock, and a
\* negative one taken as 0
NonNegativeDuration(x, clock) ==
    LET d == (IF x.endZeit = NULL THEN clock ELSE x.endZeit) - x.startZeit
    IN  IF d < 0 THEN 0 ELSE d

\* the entries are the consolidation of the segments: one entry for each day
\* on which a segment starts, with the segments of that day and the sum of
\* their durations
Consolidates(entries, segments, clock) ==
    /\ \A x \in segments :
          \E e \in entries : e.datum = x.startZeit \div DayMs
    /\ \A e, f \in entries : e.datum = f.datum => e = f
    /\ \A e \in entries :
          LET ofDay == {x \in segments : x.startZeit \div DayMs = e.datum}
          IN  /\ ofDay # {}
              /\ {g.id : g \in e.segments} = {x.id : x \in ofDay}
              /\ Cardinality(e.segments) = Cardinality(ofDay)
              /\ \A x \in ofDay : \E g \in e.segments :
                    /\ g.id = x.id /\ g.bericht = x.bericht
                    /\ g.duration = NonNegativeDuration(x, clock)
              /\ e.durationMs =
                    SumOf(ofDay, [x \in ofDay |-> NonNegativeDuration(x, clock)])

\* C27: the daily and the monthly report hold exactly one work entry for each
\* calendar day on which a segment of the user starts; the entry keeps every
\* segment of the day and its duration is the sum of the non-negative
\* durations of these segments.
C27_ReportsConsolidate ==
    [][ /\ reply'.n # reply.n
        /\ reply'.endpoint \in { "GET /api/berichte",
                                 "GET /api/berichte/monat/:monat" }
        => Consolidates(reply'.reportEntries,
                        IF reply'.endpoint = "GET /api/berichte"
                        THEN {x \in Arbeitszeiten : x.benutzerId = reply'.user}
                        ELSE ReportedSegments(reply'.user, reply'.monat[1],
                                              reply'.monat[2]),
                        now) ]_vars

\* a report holds an entry of a day with two segments, one that counts and
\* one whose end lies before its start
C27_WitnessClamped ==
    /\ reply.endpoint \in { "GET /api/berichte", "GET /api/berichte/monat/:monat" }
    /\ \E e \in reply.reportEntries :
          /\ Cardinality(e.segments) >= 2
          /\ e.durationMs = 0
          /\ \E x \in Arbeitszeiten :
                /\ x.id \in {g.id : g \in e.segments}
                /\ x.endZeit # NULL /\ x.endZeit < x.startZeit

\* a report holds an entry of a day with two segments that both count
C27_Witness ==
    /\ reply.endpoint = "GET /api/berichte"
    /\ \E e \in reply.reportEntries :
          /\ Cardinality({g \in e.segments : g.duration > 0}) >= 2
          /\ e.durationMs > 14400000

\* the texts the detection looks for in a note
MarkerPhrases ==
    { "Timer wurde automatisch um 23:59", "Auto cut-off Notification",
      "automatisch um 23:59 beendet" }

\* the note holds one of the marker phrases at some position
ContainsMarker(note) ==
    \E phrase \in MarkerPhrases :
       \E before \in 0 .. Len(note) :
          /\ before + Len(phrase) <= Len(note)
          /\ SubSeq(note, before + 1, before + Len(phrase)) = phrase

\* C29: isAutoCutoffEntry is true for a segment exactly when the segment is
\* closed, its end is 23:59:00 of a day and its note contains the marker text;
\* it is true for every notification segment of the reconciler and false for
\* a segment with an empty note or without an end.
C29_NotificationDetection ==
    \A x \in Arbeitszeiten :
       /\ isAutoCutoffEntry(x) <=> ( /\ x.endZeit # NULL
                                     /\ x.endZeit % DayMs = 86340000
                                     /\ ContainsMarker(x.bericht) )
       /\ (x.startZeit = x.endZeit /\ x.bericht = AutoCutoffNote)
             => isAutoCutoffEntry(x)
       /\ (x.bericht = "" \/ x.endZeit = NULL) => ~isAutoCutoffEntry(x)

\* the reconciler has inserted its notification segment, next to a segment
\* closed at 23:59:00 with a note of the user
C29_Witness ==
    /\ \E x \in Arbeitszeiten :
          x.startZeit = x.endZeit /\ x.bericht = AutoCutoffNote
                                  /\ isAutoCutoffEntry(x)
    /\ \E y \in Arbeitszeiten :
          /\ y.endZeit # NULL /\ y.endZeit % DayMs = 86340000
          /\ y.startZeit < y.endZeit
          /\ ~isAutoCutoffEntry(y)

\* the next statement of the handler of request r runs
RequestStep(r) ==
    \/ StartSelect(r) \/ StartInsert(r) \/ StartCommit(r)
    \/ HandleStaleUpdate(r) \/ HandleStaleInsert(r)
    \/ PauseSelect(r) \/ PauseReselect(r) \/ PauseDelete(r) \/ PauseUpdate(r)
    \/ PauseCommit(r)
    \/ EndSelect(r) \/ EndReselect(r) \/ EndDelete(r) \/ EndUpdate(r)
    \/ EndWorkTime(r) \/ EndCommit(r) \/ EndNoActive(r)
    \/ StatusSelect(r) \/ StatusToday(r) \/ StatusActive(r)

\* the segments of user u, committed or written in an open transaction
SegmentsOf(rows, transactions, u) ==
    {x \in rows : x.benutzerId = u}
    \cup UNION {{x \in transactions[q].rows : x.benutzerId = u} : q \in Reqs}

\* C24: a step of a start, pause, end_workday or status request changes
\* segments of the user of the request only, and a request whose user has no
\* other request holding a lock does not wait: its next statement can run,
\* whatever locks the requests of other users hold.
C24_IsolatedPerUser ==
    /\ [][ \A u \in Users :
             SegmentsOf(Arbeitszeiten', tx', u) # SegmentsOf(Arbeitszeiten, tx, u)
             => \E r \in Reqs : /\ pc[r] # "idle"
                                /\ pc'[r] # pc[r]
                                /\ SessionUser(sid[r]) = u ]_vars
    /\ [] \A r \in Reqs :
            ( /\ pc[r] # "idle"
              /\ \A q \in Reqs \ {r} :
                    SessionUser(sid[q]) = SessionUser(sid[r]) => locks[q] = {} )
            => ENABLED RequestStep(r)

\* a request of user 2 is about to read while a request of user 1 holds the
\* lock of the open segment of user 1
C24_Witness ==
    \E r, q \in Reqs :
        /\ r # q
        /\ SessionUser(sid[r]) = 2 /\ pc[r] = "select" /\ kind[r] # "status"
        /\ SessionUser(sid[q]) = 1 /\ locks[q] # {}
        /\ \E x \in Arbeitszeiten : x.id \in locks[q] /\ x.endZeit = NULL

\* the state of user u at the clock: Active with an open segment, Paused
\* with no open segment and a segment started today, Idle otherwise
UserState(rows, u, clock) ==
    IF \E x \in rows : x.benutzerId = u /\ x.endZeit = NULL THEN "Active"
    ELSE IF \E x \in rows : /\ x.benutzerId = u
                            /\ x.startZeit \div DayMs = clock \div DayMs
    THEN "Paused"
    ELSE "Idle"

\* C30: a step of a request changes the state of a user only from Idle or
\* Paused to Active, and then it is the commit of a start request of that
\* user answered with success, or from Active to Paused or Idle, and then it
\* is a step of a pause or end_workday request of that user or the
\* reconciler's close of the user's segment; pause, end_workday and status
\* leave an Idle or Paused user as they are.
C30_StateMachine ==
    [][ \A u \in Users :
          LET before == UserState(Arbeitszeiten, u, now)
              after == UserState(Arbeitszeiten', u, now')
          IN  (now' = now /\ after # before) =>
                \E r \in Reqs :
                   /\ pc[r] # "idle" /\ pc'[r] # pc[r]
                   /\ SessionUser(sid[r]) = u
                   /\ \/ /\ before \in {"Idle", "Paused"} /\ after = "Active"
                         /\ kind[r] = "start"
                         /\ pc'[r] = "idle"
                         /\ last'.kind = "start" /\ last'.resp.code = 200
                      \/ /\ before = "Active" /\ after \in {"Idle", "Paused"}
                         /\ \/ kind[r] \in {"pause", "end"}
                            \/ pc[r] = "stale_update" ]_vars

\* user 1, paused after work today, has started again and is Active
C30_Witness ==
    /\ last.kind = "start" /\ last.resp.code = 200 /\ last.user = 1
    /\ UserState(Arbeitszeiten, 1, now) = "Active"
    /\ \E x \in Arbeitszeiten :
          /\ x.benutzerId = 1 /\ x.endZeit # NULL
          /\ x.startZeit \div DayMs = now \div DayMs

\* the page receives the answer of the status request it has sent, and the
\* answer says success
SuccessfulFetch(r) ==
    /\ client.fetching = r
    /\ pc[r] # "idle" /\ pc'[r] = "idle"
    /\ last'.resp.code = 200

\* C28: a tick of the running page more than 10 s after the last successful
\* synchronisation sends a status request, and when the page has received a
\* successful answer its running flag, segment start and completed total are
\* those of the answer and it shows 8 h minus the total minus the time since
\* the start of the open segment.
C28_ClientResync ==
    [][ /\ ( /\ client.interval /\ client.fetching = 0 /\ client' # client
             /\ client.lastServerSync # NULL
             /\ now - client.lastServerSync > 10000 )
           => client'.fetching # 0 /\ pc'[client'.fetching] = "select"
        /\ \A r \in Reqs :
              SuccessfulFetch(r) =>
                 /\ client'.istVisuellAktiv
                       = (last'.resp.activeSegmentStartTime # NULL)
                 /\ client'.currentSegmentStartTime
                       = last'.resp.activeSegmentStartTime
                 /\ client'.serverTotalDurationMs = last'.resp.totalDurationMs
                 /\ LET elapsed == IF last'.resp.activeSegmentStartTime = NULL
                                   THEN 0
                                   ELSE now - last'.resp.activeSegmentStartTime
                        remaining == workdayDurationMs
                                     - last'.resp.totalDurationMs - elapsed
                    IN  client'.display
                           = (IF remaining < 0 THEN 0 ELSE remaining) \div 1000
      ]_vars

\* the part of C28 that holds whatever the answer: the tick more than 10 s
\* after the last synchronisation fetches, and an answer without an automatic
\* cutoff is taken over
C28_ResyncWithoutCutoff ==
    [][ /\ ( /\ client.interval /\ client.fetching = 0 /\ client' # client
             /\ client.lastServerSync # NULL
             /\ now - client.lastServerSync > 10000 )
           => client'.fetching # 0 /\ pc'[client'.fetching] = "select"
        /\ \A r \in Reqs :
              (SuccessfulFetch(r) /\ ~last'.resp.autoCutoffDetected) =>
                 /\ client'.istVisuellAktiv
                       = (last'.resp.activeSegmentStartTime # NULL)
                 /\ client'.currentSegmentStartTime
                       = last'.resp.activeSegmentStartTime
                 /\ client'.serverTotalDurationMs = last'.resp.totalDurationMs
                 /\ client'.lastServerSync = now
      ]_vars

\* C31: a segment that a pause or end_workday request has closed keeps its
\* endZeit in every later step, and a status request that has read the
\* segment as open and stale adds no notification entry once an end_workday
\* request has committed the cutoff of that segment.
C31_CommittedCloseKept ==
    [][ /\ \A x \in Arbeitszeiten :
              (x.endZeit # NULL /\ x.startZeit # x.endZeit) =>
                 \A y \in Arbeitszeiten' : y.id = x.id => y.endZeit = x.endZeit
        /\ \A r \in Reqs :
              ( /\ kind[r] = "status" /\ pc[r] = "stale_insert"
                /\ last.kind \in {"pause", "end"} /\ last.resp.code = 200
                /\ last.timerId = loc[r].rec.id )
              => \A y \in Arbeitszeiten' :
                    y.bericht = AutoCutoffNote => y \in Arbeitszeiten ]_vars

\* C32: a step of a status request changes the table only when the request
\* has read an open segment of the user that started on an earlier day; a
\* status request that has found no open segment, or one of today, answers
\* with autoCutoffDetected false and with the start of the user's open
\* segment, or null when there is none.
C32_StatusWritesOnlyWhenStale ==
    [][ \A r \in Reqs :
          (kind[r] = "status" /\ pc[r] # "idle" /\ pc'[r] # pc[r]) =>
             LET u == SessionUser(sid[r])
                 readStale == /\ loc[r].rec # NoRow
                              /\ loc[r].rec.startZeit \div DayMs # now \div DayMs
                 open == {x \in Arbeitszeiten : x.benutzerId = u /\ x.endZeit = NULL}
             IN  /\ Arbeitszeiten' # Arbeitszeiten => readStale
                 /\ ( /\ pc[r] # "select" /\ ~readStale
                      /\ pc'[r] = "idle" /\ last'.resp.code = 200 )
                    => /\ ~last'.resp.autoCutoffDetected
                       /\ IF open = {}
                          THEN last'.resp.activeSegmentStartTime = NULL
                          ELSE \E x \in open :
                                  last'.resp.activeSegmentStartTime = x.startZeit
       ]_vars

\* status has answered a user whose timer runs since today: no cutoff, the
\* start of the segment reported, the segment still open
C32_Witness ==
    /\ last.kind = "status" /\ last.resp.code = 200
    /\ ~last.resp.autoCutoffDetected
    /\ \E x \in Arbeitszeiten :
          /\ x.benutzerId = last.user /\ x.endZeit = NULL
          /\ x.startZeit \div DayMs = now \div DayMs
          /\ last.resp.activeSegmentStartTime = x.startZeit

\* the rows request r can see or has written
RowsOf(table, transactions, r) == table \cup transactions[r].rows

\* C33: no step of a start, pause, end_workday or status request and no note
\* edit of a user changes the startZeit of a segment of the table, and the
\* UPDATE of the reconciler leaves the segment as it was but for its endZeit.
C33_StartTimeImmutable ==
    [][ /\ ~AdminStep =>
             \A x \in Arbeitszeiten : \A y \in Arbeitszeiten' :
                y.id = x.id => y.startZeit = x.startZeit
        /\ \A r \in Reqs :
             (pc[r] = "stale_update" /\ pc'[r] = "stale_insert") =>
                \A y \in RowsOf(Arbeitszeiten', tx', r) :
                   (y.id = loc[r].rec.id /\ y \notin RowsOf(Arbeitszeiten, tx, r))
                   => \E x \in RowsOf(Arbeitszeiten, tx, r) :
                         /\ x.id = y.id
                         /\ y.startZeit = x.startZeit /\ y.bericht = x.bericht
                         /\ y.benutzerId = x.benutzerId ]_vars

\* the reconciler has closed the segment started at 23:58:40 of day 0 at
\* 23:59:00 of that day, the user has then rewritten its note, and the
\* segment still has its start
C33_Witness ==
    /\ reply.endpoint = "PUT /api/berichte/:berichtId"
    /\ reply.code = 200
    /\ \E x \in Arbeitszeiten :
          /\ x.id = reply.berichtId /\ x.bericht = "Y"
          /\ x.startZeit = 86320000 /\ x.endZeit = 86340000
          /\ now \div DayMs > x.startZeit \div DayMs

\* C34: when a status request that has read an open segment of an earlier day
\* is answered with success, the user has no open segment of an earlier day
\* left, and a start request of the user that reads the table next, with no
\* other request running, goes on to insert its segment.
C34_NotLockedOut ==
    [][ \A r \in Reqs :
          LET u == SessionUser(sid[r])
          IN  /\ ( /\ kind[r] = "status" /\ pc[r] # "idle" /\ pc'[r] = "idle"
                   /\ last'.resp.code = 200
                   /\ loc[r].rec # NoRow
                   /\ loc[r].rec.startZeit \div DayMs < loc[r].t \div DayMs )
                 => \A x \in Arbeitszeiten' :
                       (x.benutzerId = u /\ x.endZeit = NULL)
                       => x.startZeit \div DayMs >= now \div DayMs
              /\ ( /\ kind[r] = "start" /\ pc[r] = "select" /\ pc'[r] # pc[r]
                   /\ last'.resp.code # 500
                   /\ \A q \in Reqs \ {r} : pc[q] = "idle"
                   /\ last.kind = "status" /\ last.resp.code = 200
                   /\ last.user = u /\ last.timerId # NULL )
                 => pc'[r] = "insert" ]_vars

\* a status request has settled the stale segment of user 1 and the start
\* request that followed has been answered with success
C34_Witness ==
    /\ last.kind = "start" /\ last.resp.code = 200 /\ last.user = 1
    /\ \E x \in Arbeitszeiten :
          /\ x.benutzerId = 1 /\ x.endZeit = NULL
          /\ x.startZeit \div DayMs = now \div DayMs
    /\ \E y \in Arbeitszeiten :
          /\ y.benutzerId = 1 /\ y.bericht = AutoCutoffNote
          /\ y.startZeit \div DayMs < now \div DayMs
    /\ session["s1"] # {} \/ session["s2"] # {}

\* C35: every start, pause and end_workday request ends with its transaction
\* committed or rolled back and its row locks released, on every path, and
\* under fair scheduling every request in flight, also one that waits for a
\* lock of the same user, is eventually answered
C35_TerminatesAndReleases ==
    /\ [][ \A r \in Reqs :
             (pc[r] # "idle" /\ pc'[r] = "idle" /\ kind[r] \in {"start", "pause", "end"})
             => /\ tx'[r] = [touched |-> {}, rows |-> {}]
                /\ locks'[r] = {}
                /\ \/ Arbeitszeiten' = Arbeitszeiten
                   \/ Arbeitszeiten' = {x \in Arbeitszeiten : x.id \notin tx[r].touched}
                                          \cup tx[r].rows ]_vars
    /\ [](\A r \in Reqs : pc[r] = "idle" => locks[r] = {} /\ tx[r].touched = {})
    /\ \A r \in Reqs : (pc[r] # "idle") ~> (pc[r] = "idle")

\* a pause request waits in its SELECT ... FOR UPDATE for the lock another
\* request of the same user holds on the open segment
C35_Witness ==
    \E r \in Reqs : \E q \in Reqs \ {r} :
        /\ pc[r] = "select" /\ kind[r] = "pause"
        /\ pc[q] # "idle" /\ kind[q] \in {"start", "pause", "end"}
        /\ \E x \in Arbeitszeiten :
              /\ x.id \in locks[q] /\ x.endZeit = NULL
              /\ x.benutzerId = SessionUser(sid[r])

\* the closed segments of user u that started on the day of the clock add up
\* to the target of the day or more
QuotaReached(u) ==
    LET today == {x \in Arbeitszeiten : /\ x.benutzerId = u /\ x.endZeit # NULL
                                        /\ x.startZeit \div DayMs = now \div DayMs}
        Total[S \in SUBSET today] ==
            IF S = {} THEN 0
            ELSE LET x == CHOOSE y \in S : TRUE
                 IN  (x.endZeit - x.startZeit) + Total[S \ {x}]
    IN  Total[today] >= 8 * 60 * 60 * 1000

\* C36: a start request whose user has no open segment is never refused,
\* whatever the total of the day is and whatever was answered before: its
\* SELECT leads to the INSERT, and it is answered 200 with the new segment
\* open in the table unless the store fails
C36_StartNotBlockedByQuota ==
    [][ \A r \in Reqs :
          LET u == SessionUser(sid[r])
          IN  /\ ( /\ kind[r] = "start" /\ pc[r] = "select" /\ pc'[r] # "select"
                   /\ ~\E x \in Arbeitszeiten : x.benutzerId = u /\ x.endZeit = NULL )
                 => \/ pc'[r] = "insert"
                    \/ last'.resp.code = 500
              /\ ( /\ kind[r] = "start" /\ pc[r] \in {"insert", "commit"}
                   /\ pc'[r] = "idle" )
                 => \/ last'.resp.code = 500
                    \/ /\ last'.kind = "start" /\ last'.resp.code = 200
                       /\ \E x \in Arbeitszeiten' :
                             /\ x.benutzerId = u /\ x.endZeit = NULL
                             /\ x.startZeit = loc[r].t ]_vars

\* a pause or end_workday request has closed the segment that completes the
\* eight hours of the day, and the start request sent at the same instant
\* after it has been answered 200
C36_Witness ==
    /\ last.kind = "start" /\ last.resp.code = 200 /\ last.user = 1
    /\ QuotaReached(1)
    /\ \E x \in Arbeitszeiten : x.benutzerId = 1 /\ x.endZeit = now /\ x.bericht = "X"
    /\ \E x \in Arbeitszeiten : x.benutzerId = 1 /\ x.endZeit = NULL /\ x.startZeit >= now

\* C37: on the same absences the number of vacation days of the year in an
\* answer of a profile endpoint (hours of the helper divided by 8) and the
\* number in an answer of the monthly report (size of the set of distinct
\* weekdays) are equal, whatever the offset of the server's zone
C37_VacationCountsAgree ==
    [][ reply'.n # reply.n =>
          /\ reply'.endpoint \in {"GET /api/users/me/profile",
                                  "GET /api/admin/users/:id/profile"}
             => \A offset \in ServerZoneOffsets :
                   reply'.usedUrlaubstageThisYear =
                      Cardinality(urlaubDaysSet(Abwesenheiten, reply'.user, offset))
          /\ reply'.endpoint = "GET /api/berichte/monat/:monat"
             => reply'.usedUrlaubstageThisYear =
                   getVacationHoursForPeriodHelper(Abwesenheiten, reply'.user,
                       yearStartDate, yearEndDate) \div HOURS_PER_URLAUBSTAG_GLOBAL ]_vars

\* the segment an administrator's request asked for: start HH:MM on the date,
\* end HH:MM on the same date, or on the following day when it is earlier
AsRequested(y, date, startzeit, endzeit) ==
    /\ y.startZeit = date * DayMs + startzeit
    /\ y.endZeit = (IF endzeit >= startzeit THEN date ELSE date + 1) * DayMs + endzeit
    /\ y.endZeit - y.startZeit >= 0
    /\ y.endZeit - y.startZeit < DayMs

\* C38: a work entry created by an administrator and a segment edited by an
\* administrator are stored with the start at HH:MM of the date (for an edit
\* the calendar date the segment's start had before), the end on the same
\* date or, when it is earlier than the start, on the following day, and a
\* duration from 0 to less than 24 hours
C38_AdminTimesStored ==
    [][ reply'.n # reply.n =>
          /\ ( /\ reply'.endpoint = "POST /api/admin/berichte"
               /\ reply'.code = 201 /\ reply'.typ = "Arbeit" )
             => \A y \in Arbeitszeiten' \ Arbeitszeiten :
                   AsRequested(y, reply'.datum, reply'.startzeit, reply'.endzeit)
          /\ ( /\ reply'.endpoint = "PUT /api/admin/berichte/:id"
               /\ reply'.code = 200 )
             => \A x \in Arbeitszeiten : \A y \in Arbeitszeiten' :
                   (x.id = reply'.berichtId /\ y.id = x.id)
                   => AsRequested(y, x.startZeit \div DayMs,
                                  reply'.startzeit, reply'.endzeit) ]_vars

\* ------------------------------------------------- user administration
\* the answer of a request of the user administration
AdminAnswer(endpoint, s, code) ==
    [n |-> reply.n + 1, endpoint |-> endpoint, user |-> sessionUser[s].id,
     code |-> code]

\* the handler of slot r returns with an answer before its first await
Refuse(endpoint, s, code) ==
    /\ reply' = AdminAnswer(endpoint, s, code)
    /\ UNCHANGED << Praktikanten, sessionUser, adminReq >>

\* the handler of slot r returns with an answer after an await
Answered(r, endpoint, code) ==
    /\ reply' = AdminAnswer(endpoint, adminReq[r].s, code)
    /\ adminReq' = [adminReq EXCEPT ![r] = NoAdminReq]
    /\ UNCHANGED sessionUser

\* the handler of slot r goes on to its next statement
Proceed(r, request) ==
    /\ adminReq' = [adminReq EXCEPT ![r] = request]
    /\ UNCHANGED << Praktikanten, sessionUser, reply >>

\* SELECT ... FROM Praktikanten WHERE id = ?
UserRows(id) == {p \in Praktikanten : p.id = id}

\* POST /api/auth/login with the right password: req.session.user takes id
\* and rolle of the row; the status of the row is not looked at
Login(s) ==
    LET users == UserRows(SessionUser(s))
    IN  /\ sent < MaxRequests
        /\ sent' = sent + 1
        /\ IF users # {}
           THEN /\ sessionUser' = [sessionUser EXCEPT ![s] =
                                     SessionOf(CHOOSE p \in users : TRUE)]
                /\ reply' = AdminAnswer("POST /api/auth/login", s, 200)
           ELSE /\ reply' = AdminAnswer("POST /api/auth/login", s, 401)
                /\ UNCHANGED sessionUser
        /\ UNCHANGED << tracking, Abwesenheiten, nextAbsenceId, vacation,
                        Praktikanten, adminReq >>

\* the values of rolle in the body of PUT /api/praktikanten/:id; "" is a
\* body without rolle
RolleArgs == {"Praktikant", "Betreuer", ""}
StatusArgs == {"aktiv", "inaktiv"}

\* PUT /api/praktikanten/:id of session s, from the check of the session to
\* the SELECT email, rolle and the checks on its result; the body names no
\* email
PutPraktikantSelect(r, s, id, rolle) ==
    LET userRows == UserRows(id)
        userToEdit == CHOOSE p \in userRows : TRUE
        endpoint == "PUT /api/praktikanten/:id"
    IN  /\ adminReq[r] = NoAdminReq
        /\ \A q \in Reqs : q < r => adminReq[q] # NoAdminReq
        /\ sent < MaxRequests
        /\ sent' = sent + 1
        /\ IF sessionUser[s].rolle # "Betreuer" THEN Refuse(endpoint, s, 403)
           ELSE IF userRows = {} THEN Refuse(endpoint, s, 404)
           ELSE IF userToEdit.email = mainAdminEmail /\ rolle = "Praktikant"
                THEN Refuse(endpoint, s, 403)
           ELSE Proceed(r, [op |-> endpoint, s |-> s, id |-> id, arg |-> rolle,
                            userToEdit |-> userToEdit,
                            pc |-> IF userToEdit.rolle = "Betreuer"
                                      /\ rolle = "Praktikant"
                                   THEN "count" ELSE "update"])
        /\ UNCHANGED << tracking, Abwesenheiten, nextAbsenceId, vacation >>

\* SELECT COUNT(*) ... WHERE rolle = 'Betreuer' AND status = 'Aktiv': the
\* comparison of the ENUM column does not distinguish upper and lower case
totalActiveAdmins ==
    Cardinality({p \in Praktikanten : p.rolle = "Betreuer" /\ p.status = "aktiv"})

\* PUT /api/praktikanten/:id: the count of the active administrators
PutPraktikantCount(r) ==
    /\ adminReq[r].op = "PUT /api/praktikanten/:id" /\ adminReq[r].pc = "count"
    /\ IF totalActiveAdmins <= 1
       THEN Answered(r, adminReq[r].op, 403) /\ UNCHANGED Praktikanten
       ELSE Proceed(r, [adminReq[r] EXCEPT !.pc = "update"])
    /\ UNCHANGED << tracking, sent, Abwesenheiten, nextAbsenceId, vacation >>

\* PUT /api/praktikanten/:id: UPDATE Praktikanten SET rolle = ? WHERE id = ?
PutPraktikantUpdate(r) ==
    LET finalRolle == IF adminReq[r].arg # "" THEN adminReq[r].arg
                      ELSE adminReq[r].userToEdit.rolle
    IN  /\ adminReq[r].op = "PUT /api/praktikanten/:id" /\ adminReq[r].pc = "update"
        /\ Praktikanten' = {IF p.id = adminReq[r].id
                            THEN [p EXCEPT !.rolle = finalRolle] ELSE p
                            : p \in Praktikanten}
        /\ Answered(r, adminReq[r].op, 200)
        /\ UNCHANGED << tracking, sent, Abwesenheiten, nextAbsenceId, vacation >>

\* PUT /api/praktikanten/:id/status, up to the SELECT rolle and the check
\* that a Betreuer does not set themself inaktiv
PutStatusSelect(r, s, id, status) ==
    LET userRows == UserRows(id)
        endpoint == "PUT /api/praktikanten/:id/status"
    IN  /\ adminReq[r] = NoAdminReq
        /\ \A q \in Reqs : q < r => adminReq[q] # NoAdminReq
        /\ sent < MaxRequests
        /\ sent' = sent + 1
        /\ IF sessionUser[s].rolle # "Betreuer" THEN Refuse(endpoint, s, 403)
           ELSE IF userRows = {} THEN Refuse(endpoint, s, 404)
           ELSE IF /\ (CHOOSE p \in userRows : TRUE).rolle = "Betreuer"
                   /\ status = "inaktiv" /\ id = sessionUser[s].id
                THEN Refuse(endpoint, s, 400)
           ELSE Proceed(r, [op |-> endpoint, s |-> s, id |-> id, arg |-> status,
                            userToEdit |-> CHOOSE p \in userRows : TRUE,
                            pc |-> "update"])
        /\ UNCHANGED << tracking, Abwesenheiten, nextAbsenceId, vacation >>

\* PUT /api/praktikanten/:id/status: UPDATE Praktikanten SET status = ? WHERE id = ?
PutStatusUpdate(r) ==
    /\ adminReq[r].op = "PUT /api/praktikanten/:id/status"
    /\ adminReq[r].pc = "update"
    /\ Praktikanten' = {IF p.id = adminReq[r].id
                        THEN [p EXCEPT !.status = adminReq[r].arg] ELSE p
                        : p \in Praktikanten}
    /\ Answered(r, adminReq[r].op, 200)
    /\ UNCHANGED << tracking, sent, Abwesenheiten, nextAbsenceId, vacation >>

\* DELETE /api/praktikanten/:id, up to the SELECT rolle, status and the
\* refusal to delete a Betreuer
DeleteSelect(r, s, id) ==
    LET userRows == UserRows(id)
        endpoint == "DELETE /api/praktikanten/:id"
    IN  /\ adminReq[r] = NoAdminReq
        /\ \A q \in Reqs : q < r => adminReq[q] # NoAdminReq
        /\ sent < MaxRequests
        /\ sent' = sent + 1
        /\ IF sessionUser[s].rolle # "Betreuer" THEN Refuse(endpoint, s, 403)
           ELSE IF userRows = {} THEN Refuse(endpoint, s, 404)
           ELSE IF (CHOOSE p \in userRows : TRUE).rolle = "Betreuer"
                THEN Refuse(endpoint, s, 403)
           ELSE Proceed(r, [op |-> endpoint, s |-> s, id |-> id, arg |-> "",
                            userToEdit |-> CHOOSE p \in userRows : TRUE,
                            pc |-> IF (CHOOSE p \in userRows : TRUE).status = "aktiv"
                                   THEN "berichte" ELSE "delete"])
        /\ UNCHANGED << tracking, Abwesenheiten, nextAbsenceId, vacation >>

\* DELETE /api/praktikanten/:id: SELECT COUNT(*) FROM Arbeitszeiten WHERE
\* benutzerId = ? for an active account
DeleteBerichte(r) ==
    /\ adminReq[r].op = "DELETE /api/praktikanten/:id"
    /\ adminReq[r].pc = "berichte"
    /\ IF \E e \in Arbeitszeiten : e.benutzerId = adminReq[r].id
       THEN Answered(r, adminReq[r].op, 400) /\ UNCHANGED Praktikanten
       ELSE Proceed(r, [adminReq[r] EXCEPT !.pc = "delete"])
    /\ UNCHANGED << tracking, sent, Abwesenheiten, nextAbsenceId, vacation >>

\* DELETE FROM Praktikanten WHERE id = ?, with ON DELETE CASCADE of the
\* tables Arbeitszeiten and Abwesenheiten
DeleteDelete(r) ==
    /\ adminReq[r].op = "DELETE /api/praktikanten/:id"
    /\ adminReq[r].pc = "delete"
    /\ Praktikanten' = {p \in Praktikanten : p.id # adminReq[r].id}
    /\ Arbeitszeiten' = {e \in Arbeitszeiten : e.benutzerId # adminReq[r].id}
    /\ Abwesenheiten' = {a \in Abwesenheiten : a.benutzerId # adminReq[r].id}
    /\ Answered(r, adminReq[r].op, 200)
    /\ UNCHANGED << now, nextId, session, pc, kind, sid, loc, tx, locks, last,
                    inflightLimit, client, sent, nextAbsenceId, vacation >>

\* accounts 1 and 2 administrate account 3: account 1 is an active Betreuer,
\* with the address of the main administrator or another one, account 2 is
\* a Betreuer or a Praktikant, aktiv or inaktiv, account 3 is an active
\* Praktikant with a logged segment or without; every session is logged in
InitUsers ==
    /\ now = 86320000
    /\ \/ Arbeitszeiten = {} /\ nextId = 1
       \/ Arbeitszeiten = {Row(1, 3, 28800000, 43200000, "X")} /\ nextId = 2
    /\ session = [s \in Sessions |-> {}]
    /\ pc = [r \in Reqs |-> "idle"]
    /\ kind = [r \in Reqs |-> "start"]
    /\ sid = [r \in Reqs |-> "s1"]
    /\ loc = [r \in Reqs |-> InitLoc]
    /\ tx = [r \in Reqs |-> EmptyTx]
    /\ locks = [r \in Reqs |-> {}]
    /\ sent = 0
    /\ last = NoLast
    /\ inflightLimit = 2
    /\ client = NoClient
    /\ Abwesenheiten = {}
    /\ nextAbsenceId = 1
    /\ vacation = NoVacation
    /\ reply = NoReply
    /\ \E email \in {mainAdminEmail, "a@example.com"} :
       \E rolle \in {"Betreuer", "Praktikant"} : \E status \in StatusArgs :
          Praktikanten = { Account(1, email, "Betreuer", "aktiv"),
                           Account(2, "b@example.com", rolle, status),
                           Account(3, "c@example.com", "Praktikant", "aktiv") }
    /\ sessionUser = [s \in Sessions |->
                        SessionOf(CHOOSE p \in Praktikanten : p.id = SessionUser(s))]
    /\ adminReq = [r \in Reqs |-> NoAdminReq]

NextUsers ==
    \/ \E s \in Sessions : Login(s)
    \/ \E r \in Reqs, s \in Sessions, id \in Accounts, rolle \in RolleArgs :
          PutPraktikantSelect(r, s, id, rolle)
    \/ \E r \in Reqs : PutPraktikantCount(r)
    \/ \E r \in Reqs : PutPraktikantUpdate(r)
    \/ \E r \in Reqs, s \in Sessions, id \in Accounts, status \in StatusArgs :
          PutStatusSelect(r, s, id, status)
    \/ \E r \in Reqs : PutStatusUpdate(r)
    \/ \E r \in Reqs, s \in Sessions, id \in Accounts : DeleteSelect(r, s, id)
    \/ \E r \in Reqs : DeleteBerichte(r)
    \/ \E r \in Reqs : DeleteDelete(r)

\* the user administration under concurrent requests
SpecUsers == InitUsers /\ [][NextUsers]_vars

\* C39: the table Praktikanten holds at least one row with rolle Betreuer and
\* status aktiv, whatever role changes, status changes and deletions are
\* asked for and however their handlers interleave
C39_ActiveAdminRemains ==
    \E p \in Praktikanten : p.rolle = "Betreuer" /\ p.status = "aktiv"

====
